---------------------------- MODULE Spec2Model ----------------------------
(***************************************************************************)
(* Resilience and admission-control layer of erni-foto-agency:             *)
(*   - CircuitBreaker  (performance/circuit_breaker.py, known through its  *)
(*                      unit tests and the specification only)             *)
(*   - TokenBucket / RateLimiter / RateLimiterContext                      *)
(*                     (performance/rate_limiter.py)                       *)
(*   - SessionManager  (session/session_manager.py)                        *)
(* Time is a discrete clock `now`; one tick is 60 / TicksPerMinute seconds. *)
(***************************************************************************)
EXTENDS Integers, Sequences, FiniteSets, TLC

VARIABLES
    now,              \* time.time()
    \* ---- CircuitBreaker
    config,           \* CircuitBreakerConfig
    state,            \* CircuitState
    failure_count,    \* consecutive failures
    success_count,    \* consecutive successes while HALF_OPEN
    current_timeout,
    opened_at,        \* time of the last opening
    cb_total_requests,
    total_successes,
    total_failures,
    call_count,       \* invocations of the wrapped operation
    op_outcome,       \* what the wrapped operation produced in the last call
    caller_outcome,   \* what the caller of call() received in the last call
    invoked_in,       \* the state the operation ran in during the last call
    \* ---- TokenBucket (a bucket used on its own)
    bucket,
    bucket_result,    \* return value of the last bucket call
    wait_query,       \* the last get_wait_time(n) asked of the bucket: n, when,
                      \* the answer, and whether nothing was consumed since
    \* ---- RateLimiter
    rl_config,        \* RateLimitConfig
    rpm_bucket,
    tpm_bucket,
    semaphore,        \* free slots of asyncio.Semaphore(max_concurrent_requests)
    lock,             \* task holding RateLimiter._lock, 0 when it is free
    rl_total_requests,
    total_tokens_consumed,
    total_wait_time,
    requests_throttled,
    pc,               \* where each task is in `async with limiter.acquire(...)`:
                      \* "want_lock", "sleeping", "want_sem", "body", then
                      \* "done" or "cancelled"
    estimated_tokens, \* the weight each task asks for
    wake_at,          \* when a task's asyncio.sleep(wait_time) is due
    last_exit,        \* how the guarded body that left last ended:
                      \* "returned" or "raised", "none" before the first
    \* ---- get_rate_limiter
    rate_limiters,    \* _rate_limiters: model name -> RateLimiter
    next_limiter,     \* identity of the next RateLimiter object created
    lookups,          \* the get_rate_limiter calls of the callers: the model
                      \* asked for and the object returned, once returned
    \* ---- calls to an external service (vision analysis, SharePoint upload)
    service,          \* the service the calls go to
    call_pc,          \* where each caller's call is: "idle", then "rejected" by
                      \* the breaker or "invoked"; a vision call goes on to
                      \* "attempt"; in the end "returned" or "failed"
    attempt_number,   \* the attempt a vision call is in, 0 before the first
    \* ---- DIContainer
    initialized,      \* _initialized
    container_calls,  \* the initialize() and shutdown() calls made, in order
    component_calls,  \* the calls the components received, in order
    \* ---- GraphAPIClient._check_rate_limit
    request_timestamps,
    check_pc,         \* where each request is in _check_rate_limit: "idle",
                      \* "sleeping", "proceeded"
    current_time,     \* the local current_time of each request
    sleep_until,      \* when a request's asyncio.sleep(sleep_time) is due
    proceeded,        \* the times at which requests went on to the API, in order
    \* ---- callers of the SessionManager
    using,            \* the session object each caller works with, 0 for none
    \* ---- SessionManager
    max_sessions,
    session_ttl,
    cleanup_interval, \* in ticks of the pool's clock: one tick is one interval
    sessions,         \* _sessions, least recently used first
    stats,
    running,          \* _running
    cleanup_task,     \* _cleanup_task: the task created last, 0 for None
    loop_status,      \* the _cleanup_loop tasks created so far, in order:
                      \* "alive", "cancelled" (cancel() called) or "done"
    loop_wake_at,     \* per task, when its asyncio.sleep(cleanup_interval) is
                      \* due; 0 once the task has left the loop
    awaiting,         \* the task a suspended shutdown() awaits, 0 when none
    next_session,     \* identity of the next SQLiteSession object created
    closed,           \* SQLiteSession objects _close_session was called on
    logged_errors,    \* objects whose close raised during the last pool call
    last_returned     \* outcome of the last pool call

cbVars == <<config, state, failure_count, success_count, current_timeout,
            opened_at, cb_total_requests, total_successes, total_failures,
            call_count, op_outcome, caller_outcome, invoked_in>>

tbVars == <<bucket, bucket_result, wait_query>>

rlVars == <<rl_config, rpm_bucket, tpm_bucket, semaphore, lock, rl_total_requests,
            total_tokens_consumed, total_wait_time, requests_throttled, pc,
            estimated_tokens, wake_at,
            last_exit>>

smVars == <<max_sessions, session_ttl, cleanup_interval, sessions, stats,
            running, cleanup_task, loop_status, loop_wake_at, awaiting,
            next_session, closed, logged_errors,
            last_returned>>

regVars == <<rate_limiters, next_limiter, lookups>>

scVars == <<service, call_pc, attempt_number>>

diVars == <<initialized, container_calls, component_calls>>

gcVars == <<request_timestamps, check_pc, current_time, sleep_until, proceeded>>
callerVars == <<using>>

vars == <<now, cbVars, tbVars, rlVars, smVars, regVars, scVars, diVars, gcVars, callerVars>>

Min(a, b) == IF a <= b THEN a ELSE b
Max(a, b) == IF a >= b THEN a ELSE b

(***************************************************************************)
(* Bounds of the model.                                                    *)
(***************************************************************************)
MaxTime == 7            \* the clock of the breaker and of a lone bucket stops here
MaxLimiterTime == 3     \* the clock of the rate limiter stops here
MaxCalls == 6           \* calls made through the breaker
MaxThreshold == 2       \* failure_threshold ranges over 1..MaxThreshold
MaxBaseTimeout == 2     \* timeout_seconds ranges over 1..MaxBaseTimeout
MaxCapacityUnits == 2   \* a lone bucket holds up to MaxCapacityUnits * refill_rate
NumTasks == 3           \* tasks that enter `async with limiter.acquire(...)`
NumCallers == 3         \* callers of get_rate_limiter
MaxConcurrent == 2      \* max_concurrent_requests ranges over 1..MaxConcurrent
NumKeys == 3            \* session ids are 1..NumKeys
MaxSessions == 2        \* max_sessions ranges up to MaxSessions
MaxTtl == 1             \* session_ttl ranges over 1..MaxTtl
MaxGets == 4            \* get_session calls made on the pool
MaxPoolTime == 2        \* the clock of the pool stops here
MaxWeightUnits == 2     \* estimated_tokens ranges over the multiples of the
                        \* weight refill rate up to MaxWeightUnits of them
MaxLoops == 2           \* _cleanup_loop tasks created by start()
MaxLifecycleGets == 2   \* get_session calls made on a pool that is started
MaxContainerCalls == 6  \* initialize() and shutdown() calls made on the container
NumRequests == 4        \* requests that go through _check_rate_limit
MaxGraphTime == 4       \* the clock of the Graph client stops here

(***************************************************************************)
(* The clock.                                                              *)
(***************************************************************************)
Tick ==
    /\ now < MaxTime
    /\ now' = now + 1

(***************************************************************************)
(* CircuitBreaker                                                          *)
(***************************************************************************)
CircuitState == {"CLOSED", "OPEN", "HALF_OPEN"}

\* results and errors a wrapped operation may produce
OpResults == {"success", "API response"}
OpErrors == {"ValueError", "RuntimeError"}

\* CircuitBreakerConfig(failure_threshold, timeout_seconds, max_timeout_seconds)
\* with timeout_seconds <= max_timeout_seconds, as in every configuration of the
\* repository (2/10, 60/300, 30/600)
CircuitBreakerConfig ==
    { c \in [failure_threshold : 1..MaxThreshold,
             timeout_seconds : 1..MaxBaseTimeout,
             max_timeout_seconds : 1..(MaxBaseTimeout + 1)] :
        c.timeout_seconds <= c.max_timeout_seconds }

\* faulty variant: closing needs one success more than failure_threshold
success_threshold_plus_one == config.failure_threshold + 1

\* number of HALF_OPEN successes that close the breaker
success_threshold == config.failure_threshold

InitBreaker ==
    /\ config \in CircuitBreakerConfig
    /\ state = "CLOSED"
    /\ failure_count = 0
    /\ success_count = 0
    /\ current_timeout = config.timeout_seconds
    /\ opened_at = 0
    /\ cb_total_requests = 0
    /\ total_successes = 0
    /\ total_failures = 0
    /\ call_count = 0
    /\ op_outcome = "none"
    /\ caller_outcome = "none"
    /\ invoked_in = "none"

\* faulty variant: an OPEN breaker rejects without looking at the clock
ShouldRejectIgnoringTimeout == state = "OPEN"

\* OPEN and the timeout has not elapsed: the call is rejected
ShouldReject == state = "OPEN" /\ now - opened_at < current_timeout

\* faulty variant: opens one failure too late
ThresholdReachedLate(n) == n > config.failure_threshold

ThresholdReached(n) == n >= config.failure_threshold

\* faulty variant: doubling without the cap
NextTimeoutUncapped(t) == t * 2

NextTimeout(t) == Min(t * 2, config.max_timeout_seconds)

\* faulty variant: reset() keeps the grown timeout
ResetTimeoutKept == current_timeout

ResetTimeout == config.timeout_seconds

\* faulty variant: an OPEN breaker whose timeout has elapsed invokes the
\* operation without moving to HALF_OPEN
InvocationStateUnmoved == state

\* the state the operation is invoked in: an OPEN breaker whose timeout has
\* elapsed moves to HALF_OPEN first
InvocationState == IF state = "OPEN" THEN "HALF_OPEN" ELSE state

\* faulty variant: reopening keeps the time of the previous opening
OpenKeepingOpenedAt ==
    /\ state' = "OPEN"
    /\ opened_at' = opened_at
    /\ current_timeout' = NextTimeout(current_timeout)

Open ==
    /\ state' = "OPEN"
    /\ opened_at' = now
    /\ current_timeout' = NextTimeout(current_timeout)

\* faulty variant: a rejected call is counted as a request only
CallRejectedUncounted ==
    /\ cb_total_requests < MaxCalls
    /\ ShouldReject
    /\ cb_total_requests' = cb_total_requests + 1
    /\ op_outcome' = "not_invoked"
    /\ caller_outcome' = "CircuitBreakerError"
    /\ invoked_in' = "not_invoked"
    /\ UNCHANGED <<config, state, failure_count, success_count, current_timeout,
                   opened_at, total_successes, total_failures, call_count>>

\* call(operation) rejected while OPEN: the operation is not invoked
CallRejected ==
    /\ cb_total_requests < MaxCalls
    /\ ShouldReject
    /\ cb_total_requests' = cb_total_requests + 1
    /\ total_failures' = total_failures + 1
    /\ op_outcome' = "not_invoked"
    /\ caller_outcome' = "CircuitBreakerError"
    /\ invoked_in' = "not_invoked"
    /\ UNCHANGED <<config, state, failure_count, success_count, current_timeout,
                   opened_at, total_successes, call_count>>

\* call(operation) whose operation returns r
CallSuccess(r) ==
    /\ cb_total_requests < MaxCalls
    /\ ~ShouldReject
    /\ cb_total_requests' = cb_total_requests + 1
    /\ total_successes' = total_successes + 1
    /\ call_count' = call_count + 1
    /\ op_outcome' = r
    /\ caller_outcome' = r
    /\ invoked_in' = InvocationState
    /\ IF InvocationState = "HALF_OPEN"
       THEN LET n == (IF state = "OPEN" THEN 0 ELSE success_count) + 1 IN
            /\ success_count' = n
            /\ IF n >= success_threshold
               THEN /\ state' = "CLOSED"
                    /\ failure_count' = 0
                    /\ current_timeout' = config.timeout_seconds
               ELSE /\ state' = "HALF_OPEN"
                    /\ UNCHANGED <<failure_count, current_timeout>>
       ELSE /\ failure_count' = 0
            /\ UNCHANGED <<state, success_count, current_timeout>>
    /\ UNCHANGED <<config, opened_at, total_failures>>

\* call(operation) whose operation raises e
CallFailure(e) ==
    /\ cb_total_requests < MaxCalls
    /\ ~ShouldReject
    /\ cb_total_requests' = cb_total_requests + 1
    /\ total_failures' = total_failures + 1
    /\ call_count' = call_count + 1
    /\ op_outcome' = e
    /\ caller_outcome' = e
    /\ invoked_in' = InvocationState
    /\ IF InvocationState = "HALF_OPEN"
       THEN /\ Open
            /\ success_count' = IF state = "OPEN" THEN 0 ELSE success_count
            /\ UNCHANGED failure_count
       ELSE /\ failure_count' = failure_count + 1
            /\ IF ThresholdReached(failure_count + 1)
               THEN Open
               ELSE UNCHANGED <<state, opened_at, current_timeout>>
            /\ UNCHANGED success_count
    /\ UNCHANGED <<config, total_successes>>

\* reset()
Reset ==
    /\ state' = "CLOSED"
    /\ failure_count' = 0
    /\ success_count' = 0
    /\ current_timeout' = ResetTimeout
    /\ UNCHANGED <<config, opened_at, cb_total_requests, total_successes,
                   total_failures, call_count, op_outcome, caller_outcome,
                   invoked_in>>


(***************************************************************************)
(* TokenBucket                                                             *)
(***************************************************************************)
\* ticks in a minute: refill rates are per second in the code
\* (x_per_minute / 60.0) and per tick here; a tick is a minute
TicksPerMinute == 1

\* TokenBucket.__post_init__: a new bucket is full
TokenBucket(capacity, refill_rate) ==
    [capacity |-> capacity, refill_rate |-> refill_rate,
     tokens |-> capacity, last_refill_time |-> now]

\* faulty variant: refill without the cap at capacity
RefillUncapped(b) ==
    [b EXCEPT !.tokens = b.tokens + (now - b.last_refill_time) * b.refill_rate,
              !.last_refill_time = now]

\* TokenBucket._refill
Refill(b) ==
    [b EXCEPT !.tokens = Min(b.capacity,
                             b.tokens + (now - b.last_refill_time) * b.refill_rate),
              !.last_refill_time = now]

\* TokenBucket.consume: its return value
ConsumeOk(b, tokens) == Refill(b).tokens >= tokens

\* faulty variant: a consume that cannot be met takes what is there
ConsumePartial(b, tokens) ==
    IF ConsumeOk(b, tokens)
    THEN [Refill(b) EXCEPT !.tokens = Refill(b).tokens - tokens]
    ELSE [Refill(b) EXCEPT !.tokens = 0]

\* TokenBucket.consume: the bucket afterwards
Consume(b, tokens) ==
    IF ConsumeOk(b, tokens)
    THEN [Refill(b) EXCEPT !.tokens = Refill(b).tokens - tokens]
    ELSE Refill(b)

\* faulty variant: the wait is computed from the amount asked for, as if the
\* bucket held nothing
GetWaitTimeIgnoringHeld(b, tokens) ==
    IF Refill(b).tokens >= tokens
    THEN 0
    ELSE tokens \div b.refill_rate

\* TokenBucket.get_wait_time: its return value (the bucket is refilled by it);
\* the division is exact for the amounts the model uses
GetWaitTime(b, tokens) ==
    IF Refill(b).tokens >= tokens
    THEN 0
    ELSE (tokens - Refill(b).tokens) \div b.refill_rate

\* the buckets a test may build: capacity and amounts are multiples of the rate
LoneBuckets ==
    { [capacity |-> k * r, refill_rate |-> r, tokens |-> k * r, last_refill_time |-> 0] :
        k \in 1..MaxCapacityUnits, r \in 1..2 }

Amounts(b) == { j * b.refill_rate : j \in 0..(MaxCapacityUnits + 1) }

\* what a bucket call returned: consume's boolean, or the number returned by
\* get_wait_time and get_available_tokens
Returned(op, ok, value) == [op |-> op, ok |-> ok, value |-> value]

\* a get_wait_time(n) call made at time `at` that returned `wait`; `open` until
\* the next consume that succeeds
WaitQuery(n, at, wait, open) == [n |-> n, at |-> at, wait |-> wait, open |-> open]

InitBucket ==
    /\ bucket \in LoneBuckets
    /\ bucket_result = Returned("none", TRUE, 0)
    /\ wait_query = WaitQuery(0, 0, 0, FALSE)

InitBucketUnused ==
    /\ bucket = [capacity |-> 1, refill_rate |-> 1, tokens |-> 1, last_refill_time |-> 0]
    /\ bucket_result = Returned("none", TRUE, 0)
    /\ wait_query = WaitQuery(0, 0, 0, FALSE)

\* bucket._refill()
BucketRefillCall ==
    /\ bucket' = Refill(bucket)
    /\ bucket_result' = Returned("_refill", TRUE, 0)
    /\ UNCHANGED wait_query

\* bucket.consume(n)
BucketConsumeCall(n) ==
    /\ bucket' = Consume(bucket, n)
    /\ bucket_result' = Returned("consume", ConsumeOk(bucket, n), n)
    /\ wait_query' = IF ConsumeOk(bucket, n)
                     THEN [wait_query EXCEPT !.open = FALSE]
                     ELSE wait_query

\* bucket.get_wait_time(n)
BucketGetWaitTimeCall(n) ==
    /\ bucket' = Refill(bucket)
    /\ bucket_result' = Returned("get_wait_time", TRUE, GetWaitTime(bucket, n))
    /\ wait_query' = WaitQuery(n, now, GetWaitTime(bucket, n), TRUE)

\* bucket.get_available_tokens()
BucketGetAvailableTokensCall ==
    /\ bucket' = Refill(bucket)
    /\ bucket_result' = Returned("get_available_tokens", TRUE, Refill(bucket).tokens)
    /\ UNCHANGED wait_query

(***************************************************************************)
(* RateLimiter and RateLimiterContext                                      *)
(***************************************************************************)
Tasks == 1..NumTasks

\* RateLimitConfig: requests_per_minute, tokens_per_minute, the refill rates
\* of __post_init__, and max_concurrent_requests
RequestsPerMinute == 1
TokensPerMinute == 2

RateLimitConfig ==
    { [requests_per_minute |-> RequestsPerMinute,
       tokens_per_minute |-> TokensPerMinute,
       max_concurrent_requests |-> m,
       refill_rate_rpm |-> RequestsPerMinute \div TicksPerMinute,
       refill_rate_tpm |-> TokensPerMinute \div TicksPerMinute] :
        m \in 1..MaxConcurrent }

\* the weights a caller may pass as estimated_tokens, some above the capacity
\* of the weight bucket
Weights == { j * (TokensPerMinute \div TicksPerMinute) : j \in 1..MaxWeightUnits }

\* RateLimiter.__init__, with every task about to enter its `async with`
InitLimiter ==
    /\ rl_config \in RateLimitConfig
    /\ rpm_bucket = TokenBucket(rl_config.requests_per_minute, rl_config.refill_rate_rpm)
    /\ tpm_bucket = TokenBucket(rl_config.tokens_per_minute, rl_config.refill_rate_tpm)
    /\ semaphore = rl_config.max_concurrent_requests
    /\ lock = 0
    /\ rl_total_requests = 0
    /\ total_tokens_consumed = 0
    /\ total_wait_time = 0
    /\ requests_throttled = 0
    /\ pc = [t \in Tasks |-> "want_lock"]
    /\ estimated_tokens \in [Tasks -> Weights]
    \* the tasks are interchangeable: one numbering per choice of weights
    /\ \A t \in Tasks, u \in Tasks : t < u => estimated_tokens[t] <= estimated_tokens[u]
    /\ wake_at = [t \in Tasks |-> 0]
    /\ last_exit = "none"

InitLimiterUnused ==
    /\ rl_config = CHOOSE c \in RateLimitConfig : c.max_concurrent_requests = 1
    /\ rpm_bucket = TokenBucket(rl_config.requests_per_minute, rl_config.refill_rate_rpm)
    /\ tpm_bucket = TokenBucket(rl_config.tokens_per_minute, rl_config.refill_rate_tpm)
    /\ semaphore = rl_config.max_concurrent_requests
    /\ lock = 0
    /\ rl_total_requests = 0
    /\ total_tokens_consumed = 0
    /\ total_wait_time = 0
    /\ requests_throttled = 0
    /\ pc = [t \in Tasks |-> "done"]
    /\ estimated_tokens = [t \in Tasks |-> 0]
    /\ wake_at = [t \in Tasks |-> 0]
    /\ last_exit = "none"

\* faulty variant: the lock does not exclude
LockAlwaysAvailable == TRUE

\* `async with self._lock` can be entered
LockAvailable == lock = 0

\* faulty variant: a slot is handed out when none is left
SlotAvailableOffByOne == semaphore >= 0

\* `await self.limiter.semaphore.acquire()` can return
SlotAvailable == semaphore > 0

\* faulty variant: the wait looks at the request bucket only
WaitTimeRateOnly(t) == GetWaitTime(rpm_bucket, 1)

\* _wait_for_capacity: wait_time = max(rpm_wait, tpm_wait)
WaitTime(t) ==
    Max(GetWaitTime(rpm_bucket, 1), GetWaitTime(tpm_bucket, estimated_tokens[t]))

\* _wait_for_capacity, "# Consume tokens" to the end of the locked block, then
\* __aenter__'s semaphore.acquire(), which returns at once when a slot is free
ConsumeAndLeave(t) ==
    /\ rpm_bucket' = Consume(rpm_bucket, 1)
    /\ tpm_bucket' = Consume(tpm_bucket, estimated_tokens[t])
    /\ rl_total_requests' = rl_total_requests + 1
    /\ total_tokens_consumed' = total_tokens_consumed + estimated_tokens[t]
    /\ lock' = 0
    /\ IF SlotAvailable
       THEN /\ semaphore' = semaphore - 1
            /\ pc' = [pc EXCEPT ![t] = "body"]
       ELSE /\ semaphore' = semaphore
            /\ pc' = [pc EXCEPT ![t] = "want_sem"]

\* faulty variant: the lock is given up for the time of the sleep
LockReleasedWhileSleeping(t) == 0

\* `await asyncio.sleep(wait_time)` is inside `async with self._lock`: the
\* sleeping task keeps the lock
LockWhileSleeping(t) == t

\* _wait_for_capacity from taking the lock to its first suspension: either the
\* sleep (lock held) or, with no wait, the end of __aenter__
WaitForCapacity(t) ==
    /\ pc[t] = "want_lock"
    /\ LockAvailable
    /\ IF WaitTime(t) > 0
       THEN /\ requests_throttled' = requests_throttled + 1
            /\ total_wait_time' = total_wait_time + WaitTime(t)
            /\ rpm_bucket' = Refill(rpm_bucket)
            /\ tpm_bucket' = Refill(tpm_bucket)
            /\ lock' = LockWhileSleeping(t)
            /\ pc' = [pc EXCEPT ![t] = "sleeping"]
            /\ wake_at' = [wake_at EXCEPT ![t] = now + WaitTime(t)]
            /\ UNCHANGED <<semaphore, rl_total_requests, total_tokens_consumed>>
       ELSE /\ ConsumeAndLeave(t)
            /\ UNCHANGED <<requests_throttled, total_wait_time, wake_at>>
    /\ UNCHANGED <<rl_config, estimated_tokens, last_exit>>

\* asyncio.sleep(wait_time) returns (on time or late), its timer is gone, and
\* the task consumes
WakeAndConsume(t) ==
    /\ pc[t] = "sleeping"
    /\ now >= wake_at[t]
    /\ ConsumeAndLeave(t)
    /\ wake_at' = [wake_at EXCEPT ![t] = 0]
    /\ UNCHANGED <<rl_config, estimated_tokens, requests_throttled, total_wait_time,
                   last_exit>>

\* __aenter__: a task that found no free slot gets one
SemaphoreAcquire(t) ==
    /\ pc[t] = "want_sem"
    /\ SlotAvailable
    /\ semaphore' = semaphore - 1
    /\ pc' = [pc EXCEPT ![t] = "body"]
    /\ UNCHANGED <<rl_config, rpm_bucket, tpm_bucket, lock, rl_total_requests,
                   total_tokens_consumed, total_wait_time, requests_throttled,
                   estimated_tokens, wake_at, last_exit>>

\* faulty variant: the slot is released only when the body returned
ReleasedUnlessRaised(slots, raised) == IF raised THEN slots ELSE slots + 1

\* __aexit__: semaphore.release(), whatever exc_type is
Released(slots, raised) == slots + 1

\* faulty variant: leaving the scope gives the request's tokens back
ContextExitRefunding(t, raised) ==
    /\ pc[t] = "body"
    /\ semaphore' = semaphore + 1
    /\ rpm_bucket' = [rpm_bucket EXCEPT !.tokens = Min(@ + 1, rpm_bucket.capacity)]
    /\ tpm_bucket' = [tpm_bucket EXCEPT
                         !.tokens = Min(@ + estimated_tokens[t], tpm_bucket.capacity)]
    /\ pc' = [pc EXCEPT ![t] = "done"]
    /\ last_exit' = IF raised THEN "raised" ELSE "returned"
    /\ UNCHANGED <<rl_config, lock, rl_total_requests,
                   total_tokens_consumed, total_wait_time, requests_throttled,
                   estimated_tokens, wake_at>>

\* __aexit__: the guarded body returned or raised; an error of the body goes on
\* to the caller (`return False`)
ContextExit(t, raised) ==
    /\ pc[t] = "body"
    /\ semaphore' = Released(semaphore, raised)
    /\ pc' = [pc EXCEPT ![t] = "done"]
    /\ last_exit' = IF raised THEN "raised" ELSE "returned"
    /\ UNCHANGED <<rl_config, rpm_bucket, tpm_bucket, lock, rl_total_requests,
                   total_tokens_consumed, total_wait_time, requests_throttled,
                   estimated_tokens, wake_at>>

\* faulty variant: the lock stays with the cancelled task
LockKeptAfterCancel(t) == t

\* `async with self._lock` releases the lock when CancelledError leaves it
LockAfterCancel(t) == 0

\* the task is cancelled while suspended in `await asyncio.sleep(wait_time)`:
\* CancelledError leaves the locked block and __aenter__
CancelSleeping(t) ==
    /\ pc[t] = "sleeping"
    /\ lock' = LockAfterCancel(t)
    /\ pc' = [pc EXCEPT ![t] = "cancelled"]
    /\ UNCHANGED <<rl_config, rpm_bucket, tpm_bucket, semaphore, rl_total_requests,
                   total_tokens_consumed, total_wait_time, requests_throttled,
                   estimated_tokens, wake_at, last_exit>>

\* RateLimiter.get_stats: get_available_tokens() refills both buckets
GetStats ==
    /\ rpm_bucket' = Refill(rpm_bucket)
    /\ tpm_bucket' = Refill(tpm_bucket)
    /\ UNCHANGED <<rl_config, semaphore, lock, rl_total_requests,
                   total_tokens_consumed, total_wait_time, requests_throttled, pc,
                   estimated_tokens, wake_at, last_exit>>

(***************************************************************************)
(* get_rate_limiter and the module-level registry _rate_limiters           *)
(* A model name is the sequence of its characters.                         *)
(***************************************************************************)
Callers == 1..NumCallers

\* the model names asked for: "gpt-4o", "gpt-4o-mini", "GPT-4o-Mini", "o1-min"
ModelNames ==
    { <<"g", "p", "t", "-", "4", "o">>,
      <<"g", "p", "t", "-", "4", "o", "-", "m", "i", "n", "i">>,
      <<"G", "P", "T", "-", "4", "o", "-", "M", "i", "n", "i">>,
      <<"o", "1", "-", "m", "i", "n">> }

\* str.lower(), on the characters the names are made of
LowerChar(c) ==
    CASE c = "G" -> "g"
      [] c = "P" -> "p"
      [] c = "T" -> "t"
      [] c = "M" -> "m"
      [] OTHER -> c

Lower(s) == [i \in 1..Len(s) |-> LowerChar(s[i])]

\* `sub in s` for strings
Contains(s, sub) ==
    \E i \in 1..(Len(s) - Len(sub) + 1) : SubSeq(s, i, i + Len(sub) - 1) = sub

\* get_rate_limiter: the configuration chosen for a model
ConfigFor(model) ==
    IF Contains(Lower(model), <<"m", "i", "n", "i">>)
    THEN [requests_per_minute |-> 500, tokens_per_minute |-> 200000,
          max_concurrent_requests |-> 10]
    ELSE [requests_per_minute |-> 500, tokens_per_minute |-> 30000,
          max_concurrent_requests |-> 10]

\* RateLimiter(name=f"openai_{model}", config=config): a new object
NewRateLimiter(model) ==
    [id |-> next_limiter,
     name |-> <<"o", "p", "e", "n", "a", "i", "_">> \o model,
     config |-> ConfigFor(model)]

\* no object: what a caller holds before its call returns
NoLimiter == [id |-> 0, name |-> <<>>, config |-> ConfigFor(<<>>)]

\* a call get_rate_limiter(model) and what it returned
Lookup(model, limiter) == [model |-> model, limiter |-> limiter]

InitRegistryState ==
    /\ rate_limiters = [m \in {} |-> NoLimiter]
    /\ next_limiter = 1

\* the registry of a fresh process, every caller about to ask for a model
InitRegistry ==
    /\ InitRegistryState
    /\ lookups \in [Callers -> { Lookup(m, NoLimiter) : m \in ModelNames }]

InitRegistryUnused ==
    /\ InitRegistryState
    /\ lookups = [c \in Callers |-> Lookup(<<>>, NoLimiter)]

\* faulty variant: the registry is searched under the limiter's name
RegisteredUnderLimiterName(model) ==
    (<<"o", "p", "e", "n", "a", "i", "_">> \o model) \in DOMAIN rate_limiters

\* get_rate_limiter: `model not in _rate_limiters`, negated
Registered(model) == model \in DOMAIN rate_limiters

\* get_rate_limiter(model) called by caller c: the function has no suspension
\* point, so under the event loop the whole call is one step
GetRateLimiter(c) ==
    LET model == lookups[c].model IN
    /\ lookups[c].limiter = NoLimiter
    /\ IF Registered(model)
       THEN /\ lookups' = [lookups EXCEPT ![c].limiter = rate_limiters[model]]
            /\ UNCHANGED <<rate_limiters, next_limiter>>
       ELSE /\ rate_limiters' =
                   [m \in DOMAIN rate_limiters \cup {model} |->
                       IF m = model THEN NewRateLimiter(model) ELSE rate_limiters[m]]
            /\ next_limiter' = next_limiter + 1
            /\ lookups' = [lookups EXCEPT ![c].limiter = NewRateLimiter(model)]

(***************************************************************************)
(* Calls to the external services.  analyze_image_vision hands the closure  *)
(* vision_api_call to call_openai_with_circuit_breaker; invoked, the        *)
(* closure runs _call_openai_vision_api_with_retry, which enters            *)
(* `async with rate_limiter.acquire(...)` in each of its attempts.          *)
(* upload_to_sharepoint hands its closure to                                *)
(* call_microsoft_graph_with_circuit_breaker and uses no rate limiter.      *)
(* The two wrappers are not part of the sources at hand: each is taken to  *)
(* be call(operation) on the breaker of its service.  The callers make     *)
(* their calls one after the other.                                        *)
(***************************************************************************)
Services == {"openai", "microsoft_graph"}

\* @retry(stop=stop_after_attempt(3), ...)
MaxAttempts == 3

\* no call is between the breaker's decision and its end
NoCallInFlight == \A t \in Tasks : call_pc[t] \in {"idle", "rejected", "returned", "failed"}

\* the callers call in the order of their numbers, each once the call before
\* has ended
MayCall(t) ==
    /\ call_pc[t] = "idle"
    /\ NoCallInFlight
    /\ \A u \in Tasks : u < t => call_pc[u] # "idle"

InitServiceCallsState ==
    /\ call_pc = [t \in Tasks |-> "idle"]
    /\ attempt_number = [t \in Tasks |-> 0]

InitServiceCalls ==
    /\ service \in Services
    /\ InitServiceCallsState

InitServiceCallsUnused ==
    /\ service = "openai"
    /\ InitServiceCallsState

\* RateLimiter.__init__, no task inside `async with limiter.acquire(...)` yet;
\* the calls are made with one schema, so with one token estimate, and as they
\* come one at a time the number of slots plays no part
InitLimiterIdle ==
    /\ rl_config \in { c \in RateLimitConfig : c.max_concurrent_requests = MaxConcurrent }
    /\ rpm_bucket = TokenBucket(rl_config.requests_per_minute, rl_config.refill_rate_rpm)
    /\ tpm_bucket = TokenBucket(rl_config.tokens_per_minute, rl_config.refill_rate_tpm)
    /\ semaphore = rl_config.max_concurrent_requests
    /\ lock = 0
    /\ rl_total_requests = 0
    /\ total_tokens_consumed = 0
    /\ total_wait_time = 0
    /\ requests_throttled = 0
    /\ pc = [t \in Tasks |-> "idle"]
    /\ \E w \in Weights : estimated_tokens = [t \in Tasks |-> w]
    /\ wake_at = [t \in Tasks |-> 0]
    /\ last_exit = "none"

\* call_..._with_circuit_breaker(operation) while the breaker rejects: the
\* operation is not invoked
ServiceCallRejected(t) ==
    /\ MayCall(t)
    /\ CallRejected
    /\ call_pc' = [call_pc EXCEPT ![t] = "rejected"]
    /\ UNCHANGED <<service, attempt_number, rlVars>>

\* call_..._with_circuit_breaker(operation): the breaker decides to invoke the
\* operation, an OPEN breaker whose timeout has elapsed moving to HALF_OPEN
ServiceCallInvoked(t) ==
    /\ MayCall(t)
    /\ cb_total_requests < MaxCalls
    /\ ~ShouldReject
    /\ state' = InvocationState
    /\ success_count' = IF state = "OPEN" THEN 0 ELSE success_count
    /\ call_pc' = [call_pc EXCEPT ![t] = "invoked"]
    /\ UNCHANGED <<config, failure_count, current_timeout, opened_at,
                   cb_total_requests, total_successes, total_failures, call_count,
                   op_outcome, caller_outcome, invoked_in>>
    /\ UNCHANGED <<service, attempt_number, rlVars>>

\* the operation returns r to the breaker, which records the success
OperationReturns(t, r) ==
    /\ CallSuccess(r)
    /\ call_pc' = [call_pc EXCEPT ![t] = "returned"]
    /\ UNCHANGED <<service, attempt_number>>

\* the operation raises e to the breaker, which records the failure
OperationRaises(t, e) ==
    /\ CallFailure(e)
    /\ call_pc' = [call_pc EXCEPT ![t] = "failed"]
    /\ UNCHANGED <<service, attempt_number>>

\* upload_operation ends: it uses the Graph client alone
UploadOperationEnds(t) ==
    /\ service = "microsoft_graph"
    /\ call_pc[t] = "invoked"
    /\ \/ \E r \in OpResults : OperationReturns(t, r)
       \/ \E e \in OpErrors : OperationRaises(t, e)
    /\ UNCHANGED rlVars

\* _call_openai_vision_api: no API key in the secure storage, ValueError
\* before any attempt
VisionNoApiKey(t) ==
    /\ service = "openai"
    /\ call_pc[t] = "invoked"
    /\ OperationRaises(t, "ValueError")
    /\ UNCHANGED rlVars

\* faulty variant: the rate limiter is entered by the caller, ahead of the call
\* through the breaker
MayAcquireBeforeCall(t) ==
    \/ call_pc[t] = "invoked"
    \/ MayCall(t)

\* _call_openai_vision_api_with_retry runs inside the operation the breaker
\* invoked
MayAcquire(t) == call_pc[t] = "invoked"

\* _call_openai_vision_api_with_retry, an attempt up to
\* `async with rate_limiter.acquire(...)`: the first, or the next after an
\* error that is retried
VisionAttempt(t) ==
    /\ service = "openai"
    /\ \/ MayAcquire(t) /\ pc[t] = "idle"
       \/ /\ call_pc[t] = "attempt"
          /\ pc[t] = "done"
          /\ last_exit = "raised"
          /\ attempt_number[t] < MaxAttempts
    /\ call_pc' = [call_pc EXCEPT ![t] = "attempt"]
    /\ attempt_number' = [attempt_number EXCEPT ![t] = @ + 1]
    /\ pc' = [pc EXCEPT ![t] = "want_lock"]
    /\ UNCHANGED <<service, cbVars>>
    /\ UNCHANGED <<rl_config, rpm_bucket, tpm_bucket, semaphore, lock,
                   rl_total_requests, total_tokens_consumed, total_wait_time,
                   requests_throttled, estimated_tokens, wake_at, last_exit>>

\* the attempt's `async with` was left by return: the response goes back
\* through the breaker
VisionAttemptReturned(t) ==
    /\ call_pc[t] = "attempt"
    /\ pc[t] = "done"
    /\ last_exit = "returned"
    /\ \E r \in OpResults : OperationReturns(t, r)
    /\ UNCHANGED rlVars

\* the attempt's `async with` was left by an error that is not retried, or
\* that was the last attempt's: the error goes back through the breaker
VisionAttemptRaised(t) ==
    /\ call_pc[t] = "attempt"
    /\ pc[t] = "done"
    /\ last_exit = "raised"
    /\ \E e \in OpErrors : OperationRaises(t, e)
    /\ UNCHANGED rlVars

(***************************************************************************)
(* DIContainer                                                             *)
(* initialize() and shutdown(), called one after the other; the setup and  *)
(* the teardown of the components succeed.                                 *)
(***************************************************************************)
\* what the components are asked to do by initialize() and by shutdown()
Setup == <<"cache_manager.initialize", "metrics_collector.start_background_tasks">>
Teardown == <<"metrics_collector.stop_background_tasks", "cache_manager.close">>

\* DIContainer.__init__
InitContainerState ==
    /\ initialized = FALSE
    /\ container_calls = <<>>
    /\ component_calls = <<>>

InitContainer == InitContainerState

InitContainerUnused == InitContainerState

\* faulty variant: initialize() does not look at the flag
AlreadyInitializedIgnored == FALSE

\* `if self._initialized:` in initialize()
AlreadyInitialized == initialized

\* `if not self._initialized:` in shutdown()
NotInitialized == ~initialized

\* initialize()
ContainerInitialize ==
    /\ Len(container_calls) < MaxContainerCalls
    /\ container_calls' = Append(container_calls, "initialize")
    /\ IF AlreadyInitialized
       THEN UNCHANGED <<initialized, component_calls>>
       ELSE /\ component_calls' = component_calls \o Setup
            /\ initialized' = TRUE

\* shutdown()
ContainerShutdown ==
    /\ Len(container_calls) < MaxContainerCalls
    /\ container_calls' = Append(container_calls, "shutdown")
    /\ IF NotInitialized
       THEN UNCHANGED <<initialized, component_calls>>
       ELSE /\ component_calls' = component_calls \o Teardown
            /\ initialized' = FALSE

(***************************************************************************)
(* GraphAPIClient                                                          *)
(* _check_rate_limit runs without suspension up to `await asyncio.sleep`   *)
(* and from there to its end: each part is one step of a request.          *)
(***************************************************************************)
Requests == 1..NumRequests

\* self.rate_limit_requests = 10000 and self.rate_limit_window = 600, scaled
rate_limit_requests == 1
rate_limit_window == 2

InitGraphClientState ==
    /\ request_timestamps = <<>>
    /\ check_pc = [r \in Requests |-> "idle"]
    /\ current_time = [r \in Requests |-> 0]
    /\ sleep_until = [r \in Requests |-> 0]
    /\ proceeded = <<>>

InitGraphClient == InitGraphClientState

InitGraphClientUnused == InitGraphClientState

\* the timestamps that are still inside the window at time t
InWindow(timestamps, t) ==
    SelectSeq(timestamps, LAMBDA ts : t - ts < rate_limit_window)

\* _check_rate_limit up to `await asyncio.sleep(sleep_time)`, or to its end
\* when the request does not sleep
CheckRateLimit(r) ==
    /\ check_pc[r] = "idle"
    /\ \A q \in Requests : q < r => check_pc[q] # "idle"
    /\ current_time' = [current_time EXCEPT ![r] = now]
    /\ LET kept == InWindow(request_timestamps, now)
           sleep_time == IF kept = <<>> THEN 0
                         ELSE rate_limit_window - (now - kept[1])
       IN
       IF Len(kept) >= rate_limit_requests /\ sleep_time > 0
       THEN /\ request_timestamps' = kept
            /\ check_pc' = [check_pc EXCEPT ![r] = "sleeping"]
            /\ sleep_until' = [sleep_until EXCEPT ![r] = now + sleep_time]
            /\ UNCHANGED proceeded
       ELSE /\ request_timestamps' = Append(kept, now)
            /\ check_pc' = [check_pc EXCEPT ![r] = "proceeded"]
            /\ proceeded' = Append(proceeded, now)
            /\ UNCHANGED sleep_until

\* `await asyncio.sleep(sleep_time)` returns, on time or late, and the request
\* goes on: `self.request_timestamps.append(current_time)` with the
\* current_time read before the sleep
CheckRateLimitResume(r) ==
    /\ check_pc[r] = "sleeping"
    /\ now >= sleep_until[r]
    /\ request_timestamps' = Append(request_timestamps, current_time[r])
    /\ check_pc' = [check_pc EXCEPT ![r] = "proceeded"]
    /\ proceeded' = Append(proceeded, now)
    /\ sleep_until' = [sleep_until EXCEPT ![r] = 0]
    /\ UNCHANGED current_time

(***************************************************************************)
(* SessionManager                                                          *)
(* get_session, remove_session and cleanup_expired_sessions change the pool *)
(* inside `async with self._lock`, so each is one step of the pool.        *)
(* shutdown awaits the cancelled cleanup task before it takes the lock, so *)
(* it is two steps whenever that task has not yet terminated.              *)
(***************************************************************************)
SessionIds == 1..NumKeys

\* SessionMetadata, with the key it is stored under; created_at is written
\* once and read by a debug log only, and is left out
SessionMetadata(session_id, session, last_accessed, access_count) ==
    [session_id |-> session_id, session |-> session,
     last_accessed |-> last_accessed, access_count |-> access_count]

Range(s) == { s[i] : i \in 1..Len(s) }
Ids(s) == { s[i].session_id : i \in 1..Len(s) }
Handles(s) == { s[i].session : i \in 1..Len(s) }
IndexOf(s, session_id) == CHOOSE i \in 1..Len(s) : s[i].session_id = session_id
\* faulty variant: the entries in front of the popped one go with it
WithoutUpTo(s, i) == SubSeq(s, i + 1, Len(s))

Without(s, i) == SubSeq(s, 1, i - 1) \o SubSeq(s, i + 1, Len(s))

\* what the caller of a pool method gets: the value returned, or an error
PoolReturned(op, value, raised) ==
    [op |-> op, value |-> value, raised |-> raised]

\* SessionManager.__init__
InitStats ==
    [sessions_created |-> 0, sessions_evicted |-> 0, sessions_expired |-> 0,
     cache_hits |-> 0, cache_misses |-> 0]

InitManagerState ==
    /\ sessions = <<>>
    /\ stats = InitStats
    /\ running = FALSE
    /\ cleanup_task = 0
    /\ loop_status = <<>>
    /\ loop_wake_at = <<>>
    /\ awaiting = 0
    /\ next_session = 1
    /\ closed = {}
    /\ logged_errors = {}
    /\ last_returned = PoolReturned("none", 0, FALSE)

InitManager ==
    /\ max_sessions \in 1..MaxSessions
    /\ session_ttl \in 1..MaxTtl
    /\ cleanup_interval = 1
    /\ InitManagerState

\* as InitManager, with SessionManager(max_sessions=0) as well
InitManagerAnyMax ==
    /\ max_sessions \in 0..MaxSessions
    /\ session_ttl \in 1..MaxTtl
    /\ cleanup_interval = 1
    /\ InitManagerState

InitManagerUnused ==
    /\ max_sessions = 1
    /\ session_ttl = 1
    /\ cleanup_interval = 1
    /\ InitManagerState

\* faulty variant: the most recently used entry is evicted
PoppedMostRecent(s) == Len(s)

\* _evict_oldest_session: popitem(last=False) takes the first entry
Popped(s) == 1

\* faulty variant: a hit updates the entry where it is
TouchedInPlace(s, session_id) ==
    [s EXCEPT ![IndexOf(s, session_id)] =
        [@ EXCEPT !.last_accessed = now, !.access_count = @ + 1]]

\* get_session on a hit: update_access() and move_to_end()
Touched(s, session_id) ==
    LET i == IndexOf(s, session_id) IN
    Without(s, i) \o
        << [s[i] EXCEPT !.last_accessed = now, !.access_count = @ + 1] >>

\* get_session: `len(self._sessions) >= self.max_sessions`
AtCapacity == Len(sessions) >= max_sessions

\* faulty variant: an entry expires as soon as its age reaches the ttl
ExpiredAtTtl(m) == now - m.last_accessed >= session_ttl

\* cleanup_expired_sessions: `age > self.session_ttl`
Expired(m) == now - m.last_accessed > session_ttl

\* cleanup_expired_sessions: expired_sessions, in the order of the pool
ExpiredSessions == SelectSeq(sessions, Expired)

\* cleanup_expired_sessions: the entries that stay, in their order
RECURSIVE Unexpired(_)
Unexpired(s) ==
    IF s = <<>> THEN <<>>
    ELSE IF Expired(Head(s)) THEN Unexpired(Tail(s))
         ELSE <<Head(s)>> \o Unexpired(Tail(s))

\* faulty variant: _close_session lets the error of the close through
CloseSessionRaisesThrough(raised) == raised

\* _close_session: whether it raises when closing the object raised; the
\* `except Exception` logs the error and returns
CloseSessionRaises(raised) == FALSE

\* _close_session called on the entries of s in order, the close of the
\* objects in `raises` raising: the index of the first call that raises, 0
\* when none does
FirstRaising(s, raises) ==
    LET a == { i \in 1..Len(s) : CloseSessionRaises(s[i].session \in raises) } IN
    IF a = {} THEN 0 ELSE CHOOSE i \in a : \A j \in a : i <= j

\* the entries of s _close_session was called on
Processed(s, raises) ==
    IF FirstRaising(s, raises) = 0 THEN s ELSE SubSeq(s, 1, FirstRaising(s, raises))

\* get_session: whether get_session(session_id) evicts an entry
Evicts(session_id) ==
    session_id \notin Ids(sessions) /\ AtCapacity /\ sessions # <<>>

\* get_session(session_id); `raised` tells whether the close of an evicted
\* object raises
GetSession(session_id, raised) ==
    /\ stats.cache_hits + stats.cache_misses < MaxGets
    /\ IF session_id \in Ids(sessions)
       THEN /\ sessions' = Touched(sessions, session_id)
            /\ stats' = [stats EXCEPT !.cache_hits = @ + 1]
            /\ last_returned' =
                   PoolReturned("get_session",
                                sessions[IndexOf(sessions, session_id)].session, FALSE)
            /\ logged_errors' = {}
            /\ UNCHANGED <<next_session, closed>>
       ELSE LET evict == Evicts(session_id)
                kept == IF evict THEN Without(sessions, Popped(sessions)) ELSE sessions
                victim == sessions[Popped(sessions)].session
            IN
            /\ closed' = IF evict THEN closed \cup {victim} ELSE closed
            /\ logged_errors' = IF evict /\ raised THEN {victim} ELSE {}
            /\ IF evict /\ CloseSessionRaises(raised)
               THEN /\ sessions' = kept
                    /\ stats' = [stats EXCEPT !.cache_misses = @ + 1]
                    /\ last_returned' =
                           PoolReturned("get_session", 0, TRUE)
                    /\ UNCHANGED next_session
               ELSE /\ sessions' = kept \o
                           << SessionMetadata(session_id, next_session, now, 1) >>
                    /\ stats' = [stats EXCEPT
                                    !.cache_misses = @ + 1,
                                    !.sessions_evicted = IF evict THEN @ + 1 ELSE @,
                                    !.sessions_created = @ + 1]
                    /\ next_session' = next_session + 1
                    /\ last_returned' =
                           PoolReturned("get_session", next_session, FALSE)
    /\ UNCHANGED <<max_sessions, session_ttl, cleanup_interval, running,
                   cleanup_task, loop_status, loop_wake_at,
                   awaiting>>

\* faulty variant: nothing is evicted when the creation fails
GetSessionCreateFailsUntouched(session_id, raised) ==
    /\ stats.cache_hits + stats.cache_misses < MaxGets
    /\ session_id \notin Ids(sessions)
    /\ stats' = [stats EXCEPT !.cache_misses = @ + 1]
    /\ logged_errors' = {}
    /\ last_returned' = PoolReturned("get_session", 0, TRUE)
    /\ UNCHANGED <<sessions, closed, next_session>>
    /\ UNCHANGED <<max_sessions, session_ttl, cleanup_interval, running,
                   cleanup_task, loop_status, loop_wake_at,
                   awaiting>>

\* get_session(session_id) on a miss, `SQLiteSession(...)` raising: the miss
\* is counted and the oldest entry evicted before the object is created, and
\* the error of the constructor leaves the locked block to the caller;
\* `raised` tells whether the close of an evicted object raises
GetSessionCreateFails(session_id, raised) ==
    /\ stats.cache_hits + stats.cache_misses < MaxGets
    /\ session_id \notin Ids(sessions)
    /\ LET evict == Evicts(session_id)
           victim == sessions[Popped(sessions)].session
       IN
       /\ sessions' = IF evict THEN Without(sessions, Popped(sessions)) ELSE sessions
       /\ closed' = IF evict THEN closed \cup {victim} ELSE closed
       /\ logged_errors' = IF evict /\ raised THEN {victim} ELSE {}
       /\ stats' = [stats EXCEPT
                       !.cache_misses = @ + 1,
                       !.sessions_evicted =
                           IF evict /\ ~CloseSessionRaises(raised) THEN @ + 1 ELSE @]
    /\ last_returned' = PoolReturned("get_session", 0, TRUE)
    /\ UNCHANGED <<max_sessions, session_ttl, cleanup_interval, running,
                   cleanup_task, loop_status, loop_wake_at,
                   awaiting, next_session>>

\* remove_session(session_id); `raised` tells whether the close raises
RemoveSession(session_id, raised) ==
    /\ IF session_id \in Ids(sessions)
       THEN LET h == sessions[IndexOf(sessions, session_id)].session IN
            /\ sessions' = Without(sessions, IndexOf(sessions, session_id))
            /\ closed' = closed \cup {h}
            /\ logged_errors' = IF raised THEN {h} ELSE {}
            /\ last_returned' = PoolReturned("remove_session", 0,
                                             CloseSessionRaises(raised))
       ELSE /\ logged_errors' = {}
            /\ last_returned' = PoolReturned("remove_session", 0, FALSE)
            /\ UNCHANGED <<sessions, closed>>
    /\ UNCHANGED <<max_sessions, session_ttl, cleanup_interval, stats, running,
                   cleanup_task,
                   loop_status, loop_wake_at, awaiting, next_session>>

\* cleanup_expired_sessions: what it does to the pool, the close of the objects
\* in `raises` raising
Sweep(raises) ==
    LET done == Processed(ExpiredSessions, raises)
        a == FirstRaising(ExpiredSessions, raises)
    IN
    /\ sessions' = IF a = 0 THEN Unexpired(sessions)
                   ELSE SelectSeq(sessions, LAMBDA m : m \notin Range(done))
    /\ closed' = closed \cup Handles(done)
    /\ logged_errors' = Handles(done) \cap raises
    /\ stats' = [stats EXCEPT !.sessions_expired =
                    @ + (IF a = 0 THEN Len(ExpiredSessions) ELSE a - 1)]

\* cleanup_expired_sessions()
CleanupExpiredSessions(raises) ==
    /\ Sweep(raises)
    /\ last_returned' =
           PoolReturned("cleanup_expired_sessions", Len(ExpiredSessions),
                        FirstRaising(ExpiredSessions, raises) # 0)
    /\ UNCHANGED <<max_sessions, session_ttl, cleanup_interval, running,
                   cleanup_task, loop_status, loop_wake_at,
                   awaiting, next_session>>

\* start()
Start ==
    /\ IF running
       THEN UNCHANGED <<running, cleanup_task, loop_status, loop_wake_at>>
       ELSE /\ Len(loop_status) < MaxLoops
            /\ running' = TRUE
            /\ loop_status' = Append(loop_status, "alive")
            /\ loop_wake_at' = Append(loop_wake_at, now + cleanup_interval)
            /\ cleanup_task' = Len(loop_status) + 1
    /\ UNCHANGED <<max_sessions, session_ttl, cleanup_interval, sessions, stats,
                   awaiting,
                   next_session, closed, logged_errors, last_returned>>

\* faulty variant: shutdown() goes on without awaiting the cancelled task
LoopTerminatedOrNot(task) == TRUE

\* `await self._cleanup_task` returns once the task has finished
LoopTerminated(task) == task = 0 \/ loop_status[task] = "done"

\* shutdown(), `async with self._lock` to the end: every entry is closed and
\* the pool cleared
CloseAll(raises) ==
    /\ closed' = closed \cup Handles(Processed(sessions, raises))
    /\ logged_errors' = Handles(Processed(sessions, raises)) \cap raises
    /\ sessions' = IF FirstRaising(sessions, raises) = 0 THEN <<>> ELSE sessions
    /\ last_returned' = PoolReturned("shutdown", 0,
                                     FirstRaising(sessions, raises) # 0)

\* shutdown() up to `await self._cleanup_task`: it goes on at once when there
\* is no task to wait for, and is suspended otherwise
Shutdown(raises) ==
    /\ awaiting = 0
    /\ running' = FALSE
    /\ loop_status' = IF cleanup_task # 0 /\ loop_status[cleanup_task] = "alive"
                      THEN [loop_status EXCEPT ![cleanup_task] = "cancelled"]
                      ELSE loop_status
    /\ IF LoopTerminated(cleanup_task)
       THEN CloseAll(raises) /\ UNCHANGED awaiting
       ELSE /\ awaiting' = cleanup_task
            /\ UNCHANGED <<sessions, closed, logged_errors, last_returned>>
    /\ UNCHANGED <<max_sessions, session_ttl, cleanup_interval, stats, cleanup_task,
                   loop_wake_at, next_session>>

\* shutdown() resumed after `await self._cleanup_task`
ShutdownResume(raises) ==
    /\ awaiting # 0
    /\ LoopTerminated(awaiting)
    /\ CloseAll(raises)
    /\ awaiting' = 0
    /\ UNCHANGED <<max_sessions, session_ttl, cleanup_interval, stats, running,
                   cleanup_task,
                   loop_status, loop_wake_at, next_session>>

\* faulty variant: the round does not wait for the sleep to end
SleepOverAtOnce(task) == TRUE

\* `await asyncio.sleep(self.cleanup_interval)` has returned
SleepOver(task) == now >= loop_wake_at[task]

\* _cleanup_loop: one round of a background task that has not been cancelled,
\* from the end of its sleep to the start of the next
CleanupLoop(task, raises) ==
    /\ running
    /\ loop_status[task] = "alive"
    /\ SleepOver(task)
    /\ Sweep(raises)
    /\ loop_wake_at' = [loop_wake_at EXCEPT ![task] = now + cleanup_interval]
    /\ UNCHANGED <<max_sessions, session_ttl, cleanup_interval, running,
                   cleanup_task, loop_status, awaiting, next_session,
                   last_returned>>

\* _cleanup_loop: a cancelled task gets CancelledError where it is suspended
\* and leaves the loop
CleanupLoopCancelled(task) ==
    /\ loop_status[task] = "cancelled"
    /\ loop_status' = [loop_status EXCEPT ![task] = "done"]
    /\ loop_wake_at' = [loop_wake_at EXCEPT ![task] = 0]
    /\ UNCHANGED <<max_sessions, session_ttl, cleanup_interval, sessions, stats,
                   running, cleanup_task, awaiting, next_session, closed,
                   logged_errors, last_returned>>

\* faulty variant: the statistics count their own reads as cache hits
ManagerGetStatsCounted ==
    /\ last_returned' = PoolReturned("get_stats", Len(sessions), FALSE)
    /\ stats' = [stats EXCEPT !.cache_hits = @ + 1]
    /\ UNCHANGED <<max_sessions, session_ttl, cleanup_interval, sessions, running,
                   cleanup_task, loop_status, loop_wake_at, awaiting,
                   next_session, closed, logged_errors>>

\* SessionManager.get_stats: the caller gets the counters and
\* active_sessions = len(self._sessions)
ManagerGetStats ==
    /\ last_returned' = PoolReturned("get_stats", Len(sessions), FALSE)
    /\ UNCHANGED <<max_sessions, session_ttl, cleanup_interval, sessions, stats,
                   running, cleanup_task, loop_status, loop_wake_at, awaiting,
                   next_session, closed, logged_errors>>

(***************************************************************************)
(* Callers of the SessionManager: a caller gets a session object from      *)
(* get_session and works with it outside the pool's lock until it is done. *)
(***************************************************************************)
InitCallersUnused == using = [c \in Callers |-> 0]

InitCallers == using = [c \in Callers |-> 0]

\* `session = await manager.get_session(session_id)`
CallerGetSession(c, session_id) ==
    /\ using[c] = 0
    /\ GetSession(session_id, FALSE)
    /\ using' = [using EXCEPT ![c] = last_returned'.value]

\* the caller's work with the session object is over
CallerDone(c) ==
    /\ using[c] # 0
    /\ using' = [using EXCEPT ![c] = 0]

(***************************************************************************)
(* Specifications: one per component, the other components left untouched. *)
(***************************************************************************)
BreakerTick == Tick /\ UNCHANGED <<cbVars, tbVars, rlVars, smVars, regVars, scVars, diVars, gcVars, callerVars>>
BreakerCallRejected == CallRejected /\ UNCHANGED <<now, tbVars, rlVars, smVars, regVars, scVars, diVars, gcVars, callerVars>>
BreakerCallSuccess ==
    /\ \E r \in OpResults : CallSuccess(r)
    /\ UNCHANGED <<now, tbVars, rlVars, smVars, regVars, scVars, diVars, gcVars, callerVars>>
BreakerCallFailure ==
    /\ \E e \in OpErrors : CallFailure(e)
    /\ UNCHANGED <<now, tbVars, rlVars, smVars, regVars, scVars, diVars, gcVars, callerVars>>
BreakerReset == Reset /\ UNCHANGED <<now, tbVars, rlVars, smVars, regVars, scVars, diVars, gcVars, callerVars>>

NextBreaker ==
    \/ BreakerTick
    \/ BreakerCallRejected
    \/ BreakerCallSuccess
    \/ BreakerCallFailure
    \/ BreakerReset

InitBreakerSpec ==
    /\ now = 0 /\ InitBreaker /\ InitBucketUnused /\ InitLimiterUnused /\ InitManagerUnused
    /\ InitRegistryUnused
    /\ InitServiceCallsUnused
    /\ InitContainerUnused
    /\ InitGraphClientUnused
    /\ InitCallersUnused

SpecBreaker == InitBreakerSpec /\ [][NextBreaker]_vars

BucketTick == Tick /\ UNCHANGED <<cbVars, tbVars, rlVars, smVars, regVars, scVars, diVars, gcVars, callerVars>>
BucketRefill == BucketRefillCall /\ UNCHANGED <<now, cbVars, rlVars, smVars, regVars, scVars, diVars, gcVars, callerVars>>
BucketConsume ==
    /\ \E n \in Amounts(bucket) : BucketConsumeCall(n)
    /\ UNCHANGED <<now, cbVars, rlVars, smVars, regVars, scVars, diVars, gcVars, callerVars>>
BucketGetWaitTime ==
    /\ \E n \in Amounts(bucket) : BucketGetWaitTimeCall(n)
    /\ UNCHANGED <<now, cbVars, rlVars, smVars, regVars, scVars, diVars, gcVars, callerVars>>
BucketGetAvailableTokens ==
    /\ BucketGetAvailableTokensCall
    /\ UNCHANGED <<now, cbVars, rlVars, smVars, regVars, scVars, diVars, gcVars, callerVars>>

NextBucket ==
    \/ BucketTick
    \/ BucketRefill
    \/ BucketConsume
    \/ BucketGetWaitTime
    \/ BucketGetAvailableTokens

InitUnusedBreaker ==
    /\ config = CHOOSE c \in CircuitBreakerConfig : TRUE
    /\ InitBreaker

InitBucketSpec ==
    /\ now = 0 /\ InitUnusedBreaker /\ InitBucket /\ InitLimiterUnused /\ InitManagerUnused
    /\ InitRegistryUnused
    /\ InitServiceCallsUnused
    /\ InitContainerUnused
    /\ InitGraphClientUnused
    /\ InitCallersUnused

SpecBucket == InitBucketSpec /\ [][NextBucket]_vars

LimiterTick ==
    /\ now < MaxLimiterTime
    /\ now' = now + 1
    /\ UNCHANGED <<cbVars, tbVars, rlVars, smVars, regVars, scVars, diVars, gcVars, callerVars>>
LimiterWaitForCapacity ==
    /\ \E t \in Tasks : WaitForCapacity(t)
    /\ UNCHANGED <<now, cbVars, tbVars, smVars, regVars, scVars, diVars, gcVars, callerVars>>
LimiterWakeAndConsume ==
    /\ \E t \in Tasks : WakeAndConsume(t)
    /\ UNCHANGED <<now, cbVars, tbVars, smVars, regVars, scVars, diVars, gcVars, callerVars>>
LimiterSemaphoreAcquire ==
    /\ \E t \in Tasks : SemaphoreAcquire(t)
    /\ UNCHANGED <<now, cbVars, tbVars, smVars, regVars, scVars, diVars, gcVars, callerVars>>
LimiterContextExit ==
    /\ \E t \in Tasks, raised \in BOOLEAN : ContextExit(t, raised)
    /\ UNCHANGED <<now, cbVars, tbVars, smVars, regVars, scVars, diVars, gcVars, callerVars>>
LimiterCancelSleeping ==
    /\ \E t \in Tasks : CancelSleeping(t)
    /\ UNCHANGED <<now, cbVars, tbVars, smVars, regVars, scVars, diVars, gcVars, callerVars>>
LimiterGetStats == GetStats /\ UNCHANGED <<now, cbVars, tbVars, smVars, regVars, scVars, diVars, gcVars, callerVars>>

NextLimiter ==
    \/ LimiterTick
    \/ LimiterWaitForCapacity
    \/ LimiterWakeAndConsume
    \/ LimiterSemaphoreAcquire
    \/ LimiterContextExit
    \/ LimiterCancelSleeping
    \/ LimiterGetStats

InitLimiterSpec ==
    /\ now = 0 /\ InitUnusedBreaker /\ InitBucketUnused /\ InitLimiter /\ InitManagerUnused
    /\ InitRegistryUnused
    /\ InitServiceCallsUnused
    /\ InitContainerUnused
    /\ InitGraphClientUnused
    /\ InitCallersUnused

SpecLimiter == InitLimiterSpec /\ [][NextLimiter]_vars

\* the rate limiter entered by all the tasks together: time passes as long as
\* a task sleeps, the event loop runs every task that can go on, and every
\* guarded body ends; a sleeping task may still be cancelled
LimiterClockRuns ==
    /\ \E t \in Tasks : pc[t] = "sleeping" /\ now < wake_at[t]
    /\ now' = now + 1
    /\ UNCHANGED <<cbVars, tbVars, rlVars, smVars, regVars, scVars, diVars, gcVars, callerVars>>

NextLimiterFair ==
    \/ LimiterClockRuns
    \/ LimiterWaitForCapacity
    \/ LimiterWakeAndConsume
    \/ LimiterSemaphoreAcquire
    \/ LimiterContextExit
    \/ LimiterCancelSleeping

SpecLimiterFair ==
    /\ InitLimiterSpec
    /\ [][NextLimiterFair]_vars
    /\ WF_vars(LimiterClockRuns)
    /\ WF_vars(LimiterWaitForCapacity)
    /\ WF_vars(LimiterWakeAndConsume)
    /\ WF_vars(LimiterSemaphoreAcquire)
    /\ WF_vars(LimiterContextExit)

PoolTick ==
    /\ now < MaxPoolTime
    /\ now' = now + 1
    /\ UNCHANGED <<cbVars, tbVars, rlVars, smVars, regVars, scVars, diVars, gcVars, callerVars>>
PoolGetSession ==
    /\ \E k \in SessionIds :
          \E raised \in (IF Evicts(k) THEN BOOLEAN ELSE {FALSE}) :
              GetSession(k, raised)
    /\ UNCHANGED <<now, cbVars, tbVars, rlVars, regVars, scVars, diVars, gcVars, callerVars>>
PoolRemoveSession ==
    /\ \E k \in SessionIds :
          \E raised \in (IF k \in Ids(sessions) THEN BOOLEAN ELSE {FALSE}) :
              RemoveSession(k, raised)
    /\ UNCHANGED <<now, cbVars, tbVars, rlVars, regVars, scVars, diVars, gcVars, callerVars>>
PoolCleanupExpiredSessions ==
    /\ \E raises \in SUBSET Handles(ExpiredSessions) : CleanupExpiredSessions(raises)
    /\ UNCHANGED <<now, cbVars, tbVars, rlVars, regVars, scVars, diVars, gcVars, callerVars>>
PoolShutdown ==
    /\ \E raises \in SUBSET Handles(sessions) : Shutdown(raises)
    /\ UNCHANGED <<now, cbVars, tbVars, rlVars, regVars, scVars, diVars, gcVars, callerVars>>

\* a pool whose background task is never started: its methods called in any
\* order, the close of any object raising or not
NextPool ==
    \/ PoolTick
    \/ PoolGetSession
    \/ PoolRemoveSession
    \/ PoolCleanupExpiredSessions
    \/ PoolShutdown

InitPoolSpec ==
    /\ now = 0 /\ InitUnusedBreaker /\ InitBucketUnused /\ InitLimiterUnused /\ InitManager
    /\ InitRegistryUnused
    /\ InitServiceCallsUnused
    /\ InitContainerUnused
    /\ InitGraphClientUnused
    /\ InitCallersUnused

SpecPool == InitPoolSpec /\ [][NextPool]_vars


PoolGetSessionCreateFails ==
    /\ \E k \in SessionIds :
          \E raised \in (IF Evicts(k) THEN BOOLEAN ELSE {FALSE}) :
              GetSessionCreateFails(k, raised)
    /\ UNCHANGED <<now, cbVars, tbVars, rlVars, regVars, scVars, diVars, gcVars, callerVars>>

\* the pool with get_session calls in which the creation of the object fails
NextPoolCreate ==
    \/ PoolTick
    \/ PoolGetSession
    \/ PoolGetSessionCreateFails
    \/ PoolCleanupExpiredSessions

SpecPoolCreate == InitPoolSpec /\ [][NextPoolCreate]_vars


CallersTick ==
    /\ now < MaxPoolTime
    /\ now' = now + 1
    /\ UNCHANGED <<cbVars, tbVars, rlVars, smVars, regVars, scVars, diVars, gcVars, callerVars>>
CallersGetSession ==
    /\ stats.cache_hits + stats.cache_misses < MaxLifecycleGets
    /\ \E c \in Callers : \E k \in SessionIds : CallerGetSession(c, k)
    /\ UNCHANGED <<now, cbVars, tbVars, rlVars, regVars, scVars, diVars, gcVars>>
CallersDone ==
    /\ \E c \in Callers : CallerDone(c)
    /\ UNCHANGED <<now, cbVars, tbVars, rlVars, smVars, regVars, scVars, diVars, gcVars>>
CallersCleanupExpiredSessions ==
    /\ CleanupExpiredSessions({})
    /\ UNCHANGED <<now, cbVars, tbVars, rlVars, regVars, scVars, diVars, gcVars, callerVars>>
CallersRemoveSession ==
    /\ \E k \in Ids(sessions) : RemoveSession(k, FALSE)
    /\ UNCHANGED <<now, cbVars, tbVars, rlVars, regVars, scVars, diVars, gcVars, callerVars>>
CallersShutdown ==
    /\ sessions # <<>>
    /\ Shutdown({})
    /\ UNCHANGED <<now, cbVars, tbVars, rlVars, regVars, scVars, diVars, gcVars, callerVars>>

\* tasks that get a session object and work with it, while other tasks call
\* get_session, the sweep runs, and keys are removed or the pool shut down
NextPoolCallers ==
    \/ CallersTick
    \/ CallersGetSession
    \/ CallersDone
    \/ CallersCleanupExpiredSessions
    \/ CallersRemoveSession
    \/ CallersShutdown

InitPoolCallersSpec ==
    /\ now = 0 /\ InitUnusedBreaker /\ InitBucketUnused /\ InitLimiterUnused /\ InitManager
    /\ InitRegistryUnused
    /\ InitServiceCallsUnused
    /\ InitContainerUnused
    /\ InitGraphClientUnused
    /\ InitCallers

SpecPoolCallers == InitPoolCallersSpec /\ [][NextPoolCallers]_vars

InitPoolAnyMaxSpec ==
    /\ now = 0 /\ InitUnusedBreaker /\ InitBucketUnused /\ InitLimiterUnused
    /\ InitManagerAnyMax
    /\ InitRegistryUnused
    /\ InitServiceCallsUnused
    /\ InitContainerUnused
    /\ InitGraphClientUnused
    /\ InitCallersUnused

SpecPoolAnyMax == InitPoolAnyMaxSpec /\ [][NextPool]_vars

\* the pool with its background task: start(), shutdown() and the task's
\* rounds interleaved with get_session, every close succeeding
LifecycleTick ==
    /\ now < MaxPoolTime
    /\ now' = now + 1
    /\ UNCHANGED <<cbVars, tbVars, rlVars, smVars, regVars, scVars, diVars, gcVars, callerVars>>
LifecycleGetSession ==
    /\ stats.cache_hits + stats.cache_misses < MaxLifecycleGets
    /\ \E k \in SessionIds : GetSession(k, FALSE)
    /\ UNCHANGED <<now, cbVars, tbVars, rlVars, regVars, scVars, diVars, gcVars, callerVars>>
LifecycleStart == Start /\ UNCHANGED <<now, cbVars, tbVars, rlVars, regVars, scVars, diVars, gcVars, callerVars>>
LifecycleShutdown == Shutdown({}) /\ UNCHANGED <<now, cbVars, tbVars, rlVars, regVars, scVars, diVars, gcVars, callerVars>>
LifecycleShutdownResume ==
    /\ ShutdownResume({})
    /\ UNCHANGED <<now, cbVars, tbVars, rlVars, regVars, scVars, diVars, gcVars, callerVars>>
LifecycleCleanupLoop ==
    /\ \E task \in 1..Len(loop_status) : CleanupLoop(task, {})
    /\ UNCHANGED <<now, cbVars, tbVars, rlVars, regVars, scVars, diVars, gcVars, callerVars>>
LifecycleCleanupLoopCancelled ==
    /\ \E task \in 1..Len(loop_status) : CleanupLoopCancelled(task)
    /\ UNCHANGED <<now, cbVars, tbVars, rlVars, regVars, scVars, diVars, gcVars, callerVars>>

NextLifecycle ==
    \/ LifecycleTick
    \/ LifecycleGetSession
    \/ LifecycleStart
    \/ LifecycleShutdown
    \/ LifecycleShutdownResume
    \/ LifecycleCleanupLoop
    \/ LifecycleCleanupLoopCancelled

InitLifecycleSpec ==
    /\ now = 0 /\ InitUnusedBreaker /\ InitBucketUnused /\ InitLimiterUnused /\ InitManager
    /\ InitRegistryUnused
    /\ InitServiceCallsUnused
    /\ InitContainerUnused
    /\ InitGraphClientUnused
    /\ InitCallersUnused

SpecLifecycle == InitLifecycleSpec /\ [][NextLifecycle]_vars

\* the same, time passing and the event loop running the background task
\* whose sleep has ended
SpecLifecycleFair ==
    /\ SpecLifecycle
    /\ WF_vars(LifecycleTick)
    /\ WF_vars(LifecycleCleanupLoop)

RegistryGetRateLimiter ==
    /\ \E c \in Callers : GetRateLimiter(c)
    /\ UNCHANGED <<now, cbVars, tbVars, rlVars, smVars, scVars, diVars, gcVars, callerVars>>

\* callers of get_rate_limiter, each asking once, in any order
NextRegistry == RegistryGetRateLimiter


InitRegistrySpec ==
    /\ now = 0 /\ InitUnusedBreaker /\ InitBucketUnused /\ InitLimiterUnused /\ InitManagerUnused
    /\ InitRegistry
    /\ InitServiceCallsUnused
    /\ InitContainerUnused
    /\ InitGraphClientUnused
    /\ InitCallersUnused

SpecRegistry == InitRegistrySpec /\ [][NextRegistry]_vars

ServiceCallsRejected ==
    /\ \E t \in Tasks : ServiceCallRejected(t)
    /\ UNCHANGED <<now, tbVars, smVars, regVars, diVars, gcVars, callerVars>>
ServiceCallsInvoked ==
    /\ \E t \in Tasks : ServiceCallInvoked(t)
    /\ UNCHANGED <<now, tbVars, smVars, regVars, diVars, gcVars, callerVars>>
ServiceCallsUploadOperationEnds ==
    /\ \E t \in Tasks : UploadOperationEnds(t)
    /\ UNCHANGED <<now, tbVars, smVars, regVars, diVars, gcVars, callerVars>>
ServiceCallsVisionNoApiKey ==
    /\ \E t \in Tasks : VisionNoApiKey(t)
    /\ UNCHANGED <<now, tbVars, smVars, regVars, diVars, gcVars, callerVars>>
ServiceCallsVisionAttempt ==
    /\ \E t \in Tasks : VisionAttempt(t)
    /\ UNCHANGED <<now, tbVars, smVars, regVars, diVars, gcVars, callerVars>>
ServiceCallsVisionAttemptReturned ==
    /\ \E t \in Tasks : VisionAttemptReturned(t)
    /\ UNCHANGED <<now, tbVars, smVars, regVars, diVars, gcVars, callerVars>>
ServiceCallsVisionAttemptRaised ==
    /\ \E t \in Tasks : VisionAttemptRaised(t)
    /\ UNCHANGED <<now, tbVars, smVars, regVars, diVars, gcVars, callerVars>>

\* calls to one service made one after the other; with one call at a time a
\* free slot is always there, so no attempt waits for the semaphore
NextServiceCalls ==
    \/ LimiterTick
    \/ ServiceCallsRejected
    \/ ServiceCallsInvoked
    \/ ServiceCallsUploadOperationEnds
    \/ ServiceCallsVisionNoApiKey
    \/ ServiceCallsVisionAttempt
    \/ LimiterWaitForCapacity
    \/ LimiterWakeAndConsume
    \/ LimiterContextExit
    \/ ServiceCallsVisionAttemptReturned
    \/ ServiceCallsVisionAttemptRaised

InitServiceCallsSpec ==
    /\ now = 0 /\ InitBreaker /\ InitBucketUnused /\ InitLimiterIdle /\ InitManagerUnused
    /\ InitRegistryUnused
    /\ InitServiceCalls
    /\ InitContainerUnused
    /\ InitGraphClientUnused
    /\ InitCallersUnused

SpecServiceCalls == InitServiceCallsSpec /\ [][NextServiceCalls]_vars

\* the statistics of the rate limiter and of the pool, read at any moment: one
\* of the two components is in use, the other is left as it was constructed
LimiterInUse == \E t \in Tasks : estimated_tokens[t] # 0

StatsTick ==
    /\ now < (IF LimiterInUse THEN MaxLimiterTime ELSE MaxPoolTime)
    /\ now' = now + 1
    /\ UNCHANGED <<cbVars, tbVars, rlVars, smVars, regVars, scVars, diVars, gcVars, callerVars>>
StatsLimiterGetStats ==
    /\ LimiterInUse
    /\ GetStats
    /\ UNCHANGED <<now, cbVars, tbVars, smVars, regVars, scVars, diVars, gcVars, callerVars>>
StatsGetSession ==
    /\ ~LimiterInUse
    /\ stats.cache_hits + stats.cache_misses < MaxLifecycleGets
    /\ \E k \in SessionIds : GetSession(k, FALSE)
    /\ UNCHANGED <<now, cbVars, tbVars, rlVars, regVars, scVars, diVars, gcVars, callerVars>>
StatsCleanupExpiredSessions ==
    /\ ~LimiterInUse
    /\ CleanupExpiredSessions({})
    /\ UNCHANGED <<now, cbVars, tbVars, rlVars, regVars, scVars, diVars, gcVars, callerVars>>
StatsManagerGetStats ==
    /\ ~LimiterInUse
    /\ ManagerGetStats
    /\ UNCHANGED <<now, cbVars, tbVars, rlVars, regVars, scVars, diVars, gcVars, callerVars>>

NextStats ==
    \/ StatsTick
    \/ LimiterWaitForCapacity
    \/ LimiterWakeAndConsume
    \/ LimiterSemaphoreAcquire
    \/ LimiterContextExit
    \/ StatsLimiterGetStats
    \/ StatsGetSession
    \/ StatsCleanupExpiredSessions
    \/ StatsManagerGetStats

InitStatsSpec ==
    /\ now = 0 /\ InitUnusedBreaker /\ InitBucketUnused
    /\ \/ InitLimiter /\ InitManagerUnused
       \/ InitLimiterUnused /\ InitManager
    /\ InitRegistryUnused
    /\ InitServiceCallsUnused
    /\ InitContainerUnused
    /\ InitGraphClientUnused
    /\ InitCallersUnused

SpecStats == InitStatsSpec /\ [][NextStats]_vars

ContainerInitializeCall ==
    /\ ContainerInitialize
    /\ UNCHANGED <<now, cbVars, tbVars, rlVars, smVars, regVars, scVars, gcVars, callerVars>>
ContainerShutdownCall ==
    /\ ContainerShutdown
    /\ UNCHANGED <<now, cbVars, tbVars, rlVars, smVars, regVars, scVars, gcVars, callerVars>>

\* initialize() and shutdown() called in any order
NextContainer ==
    \/ ContainerInitializeCall
    \/ ContainerShutdownCall

InitContainerSpec ==
    /\ now = 0 /\ InitUnusedBreaker /\ InitBucketUnused /\ InitLimiterUnused /\ InitManagerUnused
    /\ InitRegistryUnused
    /\ InitServiceCallsUnused
    /\ InitContainer
    /\ InitGraphClientUnused
    /\ InitCallersUnused

SpecContainer == InitContainerSpec /\ [][NextContainer]_vars


GraphTick ==
    /\ now < MaxGraphTime
    /\ now' = now + 1
    /\ UNCHANGED <<cbVars, tbVars, rlVars, smVars, regVars, scVars, diVars, gcVars, callerVars>>
GraphCheckRateLimit ==
    /\ \E r \in Requests : CheckRateLimit(r)
    /\ UNCHANGED <<now, cbVars, tbVars, rlVars, smVars, regVars, scVars, diVars, callerVars>>
GraphCheckRateLimitResume ==
    /\ \E r \in Requests : CheckRateLimitResume(r)
    /\ UNCHANGED <<now, cbVars, tbVars, rlVars, smVars, regVars, scVars, diVars, callerVars>>

\* requests of concurrent tasks going through _check_rate_limit
NextGraphClient ==
    \/ GraphTick
    \/ GraphCheckRateLimit
    \/ GraphCheckRateLimitResume

InitGraphClientSpec ==
    /\ now = 0 /\ InitUnusedBreaker /\ InitBucketUnused /\ InitLimiterUnused /\ InitManagerUnused
    /\ InitRegistryUnused
    /\ InitServiceCallsUnused
    /\ InitContainerUnused
    /\ InitGraphClient
    /\ InitCallersUnused

SpecGraphClient == InitGraphClientSpec /\ [][NextGraphClient]_vars

(***************************************************************************)
(* Properties                                                              *)
(***************************************************************************)
Running == { t \in Tasks : pc[t] = "body" }

\* a step that is one call() on the breaker
IsCall == cb_total_requests' = cb_total_requests + 1

\* C1: in CLOSED the breaker opens exactly on the failing call that brings the
\* consecutive-failure count (reset to 0 by every success) to failure_threshold;
\* while CLOSED the count stays below the threshold.
C1_OpensExactlyAtThreshold ==
    [][ /\ state' = "CLOSED" => failure_count' < config.failure_threshold
        /\ (state = "CLOSED" /\ IsCall) =>
              /\ state' \in {"CLOSED", "OPEN"}
              /\ caller_outcome' \in OpResults => failure_count' = 0
              /\ caller_outcome' \in OpErrors => failure_count' = failure_count + 1
              /\ state' = "OPEN" <=> failure_count' = config.failure_threshold
      ]_vars

\* C1 witness: opened at a threshold above 1 after a success had reset the count
C1_Witness ==
    /\ state = "OPEN"
    /\ config.failure_threshold > 1
    /\ failure_count = config.failure_threshold
    /\ total_successes > 0
    /\ call_count = cb_total_requests

\* C2: a call is rejected with the breaker's own error, the operation not
\* invoked, exactly when the breaker is OPEN and its timeout has not elapsed;
\* every other call invokes the operation once and hands its result or error
\* to the caller unchanged.
C2_RejectsOnlyWhileOpen ==
    [][ IsCall =>
          IF state = "OPEN" /\ now - opened_at < current_timeout
          THEN /\ caller_outcome' = "CircuitBreakerError"
               /\ op_outcome' = "not_invoked"
               /\ call_count' = call_count
          ELSE /\ call_count' = call_count + 1
               /\ op_outcome' \in OpResults \cup OpErrors
               /\ caller_outcome' = op_outcome'
      ]_vars

\* C2 witness: calls were rejected, and a later call went through to the operation
C2_Witness ==
    /\ state = "HALF_OPEN"
    /\ cb_total_requests > call_count
    /\ caller_outcome \in OpResults

\* C3: never more than max_concurrent_requests guarded bodies at once.
C3_BoundedConcurrency == Cardinality(Running) <= rl_config.max_concurrent_requests

\* C3 witness: every slot is taken and a further admitted task waits for one
C3_Witness ==
    /\ Cardinality(Running) = rl_config.max_concurrent_requests
    /\ \E t \in Tasks : pc[t] = "want_sem"

\* C4: the pool never holds more than max_sessions entries.
C4_SizeWithinMax == Len(sessions) <= max_sessions

\* C5: a miss on a full pool evicts exactly the entry with the oldest last
\* access, keeps every other entry, adds the new key and leaves the pool full;
\* the entry accessed last is not the one evicted when there is another.
C5_EvictsLeastRecentlyAccessed ==
    [][ \A k \in SessionIds :
          ( /\ stats'.cache_misses = stats.cache_misses + 1
            /\ k \notin Ids(sessions)
            /\ k \in Ids(sessions')
            /\ Len(sessions) = max_sessions ) =>
          \E v \in Range(sessions) :
              /\ \A m \in Range(sessions) : v.last_accessed <= m.last_accessed
              /\ Len(sessions) > 1 => v # sessions[Len(sessions)]
              /\ { m \in Range(sessions') : m.session_id # k } = Range(sessions) \ {v}
              /\ Len(sessions') = max_sessions
              /\ closed' = closed \cup {v.session}
              /\ stats'.sessions_evicted = stats.sessions_evicted + 1
      ]_vars

\* C5 witness: after an eviction, an entry that was hit outlives a younger one
C5_Witness ==
    /\ stats.sessions_evicted > 0
    /\ stats.sessions_expired = 0
    /\ Len(sessions) = max_sessions
    /\ \E m \in Range(sessions) : \E c \in closed : m.access_count > 1 /\ m.session < c

\* a step in which task t passes step 1 of acquire (its tokens are consumed)
Admitted(t) == pc[t] \in {"want_lock", "sleeping"} /\ pc'[t] \in {"want_sem", "body"}

\* C6: every admitted acquire takes 1 token from the rate bucket and its weight
\* from the weight bucket, so total_tokens_consumed grows by what was debited.
C6_AdmittedDebitsBoth ==
    [][ \A t \in Tasks : Admitted(t) =>
          /\ rpm_bucket'.tokens = Refill(rpm_bucket).tokens - 1
          /\ tpm_bucket'.tokens = Refill(tpm_bucket).tokens - estimated_tokens[t]
          /\ total_tokens_consumed' - total_tokens_consumed =
                 Refill(tpm_bucket).tokens - tpm_bucket'.tokens
      ]_vars

\* C7: while a task is between its wait computation and its consumption it
\* holds the lock, no other task is there or gets there, and no token is
\* debited or request counted until it consumes.
C7_WaitThenConsumeSerialized ==
    [][ \A t \in Tasks : pc[t] = "sleeping" =>
          /\ lock = t
          /\ \A u \in Tasks \ {t} :
                /\ pc[u] # "sleeping"
                /\ pc[u] = "want_lock" => pc'[u] = "want_lock"
          /\ pc'[t] = "sleeping" =>
                /\ rpm_bucket'.tokens >= rpm_bucket.tokens
                /\ tpm_bucket'.tokens >= tpm_bucket.tokens
                /\ rl_total_requests' = rl_total_requests
                /\ total_tokens_consumed' = total_tokens_consumed
      ]_vars

\* C7 witness: one task sleeps in the lock while another waits for the lock
C7_Witness ==
    \E t, u \in Tasks : t # u /\ pc[t] = "sleeping" /\ pc[u] = "want_lock" /\ now < wake_at[t]

\* C8: a bucket's tokens stay within 0..capacity.
C8_TokensWithinCapacity == 0 <= bucket.tokens /\ bucket.tokens <= bucket.capacity

\* C8 witness: a drained bucket whose pending refill exceeds the capacity
C8_Witness ==
    /\ bucket.tokens = 0
    /\ bucket_result.op = "consume"
    /\ bucket.last_refill_time > 0
    /\ (now - bucket.last_refill_time) * bucket.refill_rate > bucket.capacity

\* C9: current_timeout never exceeds max_timeout_seconds.
C9_TimeoutCapped == current_timeout <= config.max_timeout_seconds

\* C9 witness: reopened from HALF_OPEN with the doubled timeout cut at the cap
C9_Witness ==
    /\ state = "OPEN"
    /\ current_timeout = config.max_timeout_seconds
    /\ 2 * config.timeout_seconds < config.max_timeout_seconds
    /\ 4 * config.timeout_seconds > config.max_timeout_seconds

\* C10: reset() (the one breaker step that is neither a call nor a tick) ends
\* CLOSED with both consecutive counters 0 and current_timeout = timeout_seconds.
C10_ResetRestores ==
    [][ (cb_total_requests' = cb_total_requests /\ now' = now) =>
          /\ state' = "CLOSED"
          /\ failure_count' = 0
          /\ success_count' = 0
          /\ current_timeout' = config.timeout_seconds
      ]_vars

\* C10 witness: closed again after failures alone had opened the breaker
C10_Witness ==
    /\ state = "CLOSED"
    /\ failure_count = 0
    /\ total_successes = 0
    /\ call_count >= config.failure_threshold
    /\ cb_total_requests > call_count
    /\ current_timeout = config.timeout_seconds
\* a call that is not rejected while the breaker is HALF_OPEN, or OPEN with its
\* timeout elapsed (it moves to HALF_OPEN before the operation is invoked)
HalfOpenCall ==
    \/ state = "HALF_OPEN"
    \/ state = "OPEN" /\ now - opened_at >= current_timeout

C12_HalfOpenFailureReopens ==
    [][(IsCall /\ HalfOpenCall /\ caller_outcome' \notin OpResults) =>
          /\ state' = "OPEN"
          /\ opened_at' = now
          /\ current_timeout' = Min(2 * current_timeout, config.max_timeout_seconds)
          /\ call_count' = call_count + 1
          /\ caller_outcome' \in OpErrors
          /\ caller_outcome' = op_outcome']_vars

\* reopened by a failure that followed a counted HALF_OPEN success
C12_Witness ==
    /\ state = "OPEN"
    /\ invoked_in = "HALF_OPEN"
    /\ success_count = 1
    /\ caller_outcome \in OpErrors
    /\ opened_at = now

\* C13: the state changes only along CLOSED -> OPEN, OPEN -> HALF_OPEN,
\* HALF_OPEN -> CLOSED, HALF_OPEN -> OPEN and, by reset(), any -> CLOSED.  OPEN
\* is left only by a call made when now - opened_at >= current_timeout, which
\* moves to HALF_OPEN and invokes the operation, or by reset(): never by the
\* passage of time, and never from OPEN to CLOSED without passing HALF_OPEN.
C13_OnlyListedTransitions ==
    [][/\ now' # now => state' = state /\ invoked_in' = invoked_in
       /\ (IsCall /\ invoked_in' = "not_invoked") => state' = state
       /\ (IsCall /\ invoked_in' # "not_invoked") =>
             /\ <<state, invoked_in'>> \in
                   {<<"CLOSED", "CLOSED">>, <<"HALF_OPEN", "HALF_OPEN">>,
                    <<"OPEN", "HALF_OPEN">>}
             /\ <<invoked_in', state'>> \in
                   {<<"CLOSED", "CLOSED">>, <<"HALF_OPEN", "HALF_OPEN">>,
                    <<"CLOSED", "OPEN">>, <<"HALF_OPEN", "CLOSED">>,
                    <<"HALF_OPEN", "OPEN">>}
             /\ call_count' = call_count + 1
             /\ state = "OPEN" => now - opened_at >= current_timeout
       /\ (~IsCall /\ state' # state) =>
             /\ state' = "CLOSED"
             /\ now' = now
             /\ call_count' = call_count]_vars

\* one call took an OPEN breaker through HALF_OPEN to CLOSED
C13_Witness ==
    /\ state = "CLOSED"
    /\ invoked_in = "HALF_OPEN"
    /\ config.failure_threshold = 1
    /\ success_count = 1
    /\ now - opened_at >= config.timeout_seconds

\* C14: every call, a rejected one included, adds 1 to total_requests and 1 to
\* exactly one of total_successes and total_failures (a rejected call is a
\* failure), so total_requests = total_successes + total_failures after it.
C14_EveryCallCounted ==
    [][/\ \/ /\ cb_total_requests' = cb_total_requests
             /\ total_successes' = total_successes
             /\ total_failures' = total_failures
          \/ /\ cb_total_requests' = cb_total_requests + 1
             /\ \/ /\ total_successes' = total_successes + 1
                   /\ total_failures' = total_failures
                   /\ caller_outcome' \in OpResults
                \/ /\ total_failures' = total_failures + 1
                   /\ total_successes' = total_successes
                   /\ caller_outcome' \notin OpResults
       /\ (call_count' # call_count \/ caller_outcome' # caller_outcome
           \/ invoked_in' # invoked_in) => IsCall
       /\ cb_total_requests' = total_successes' + total_failures']_vars

\* successes, operation failures and rejections have all been counted
C14_Witness ==
    /\ total_successes > 0
    /\ call_count > total_successes
    /\ cb_total_requests > call_count
    /\ cb_total_requests = total_successes + total_failures

\* a step that is a call of cleanup_expired_sessions()
SweepCall ==
    /\ last_returned'.op = "cleanup_expired_sessions"
    /\ now' = now
    /\ UNCHANGED <<running, loop_status, awaiting>>

\* C15: cleanup_expired_sessions() removes exactly the entries with
\* now - last_accessed > session_ttl, returns their number and adds it to
\* sessions_expired; every entry left has an age of at most session_ttl, so an
\* entry accessed within session_ttl of the sweep is still there.
C15_SweepRemovesExactlyExpired ==
    [][SweepCall =>
          LET gone == { m \in Range(sessions) : now - m.last_accessed > session_ttl } IN
          /\ sessions' = SelectSeq(sessions,
                                   LAMBDA m : now - m.last_accessed <= session_ttl)
          /\ Range(sessions') = Range(sessions) \ gone
          /\ \A m \in Range(sessions') : now - m.last_accessed <= session_ttl
          /\ closed' = closed \cup { m.session : m \in gone }
          /\ last_returned'.value = Cardinality(gone)
          /\ stats' = [stats EXCEPT !.sessions_expired = @ + Cardinality(gone)]]_vars

\* a sweep has removed an expired entry and left one whose age is the ttl
C15_Witness ==
    /\ last_returned.op = "cleanup_expired_sessions"
    /\ last_returned.value >= 1
    /\ \E m \in Range(sessions) : now - m.last_accessed = session_ttl

\* a step that is a call of get_session(...)
GetCall ==
    stats'.cache_hits + stats'.cache_misses = stats.cache_hits + stats.cache_misses + 1

\* C16: while a key stays in the pool every get_session(key) returns the one
\* object created for it.  A hit creates nothing, adds 1 to cache_hits and to
\* the entry's access_count, sets last_accessed to now and moves the entry to
\* the most-recently-used end; calls for an absent key create one object, the
\* first of them, and the pool never holds two entries for a key.
C16_OneHandlePerKey ==
    [][/\ \A i \in 1..Len(sessions) : \A j \in 1..Len(sessions') :
             sessions[i].session_id = sessions'[j].session_id =>
                 sessions[i].session = sessions'[j].session
       /\ Cardinality(Ids(sessions')) = Len(sessions')
       /\ Cardinality(Handles(sessions')) = Len(sessions')
       /\ GetCall =>
             LET k == sessions'[Len(sessions')].session_id IN
             IF k \in Ids(sessions)
             THEN LET i == CHOOSE n \in 1..Len(sessions) : sessions[n].session_id = k IN
                  /\ last_returned'.value = sessions[i].session
                  /\ ~last_returned'.raised
                  /\ sessions'[Len(sessions')] =
                         [sessions[i] EXCEPT !.last_accessed = now,
                                             !.access_count = @ + 1]
                  /\ SubSeq(sessions', 1, Len(sessions') - 1) =
                         SubSeq(sessions, 1, i - 1) \o SubSeq(sessions, i + 1, Len(sessions))
                  /\ stats' = [stats EXCEPT !.cache_hits = @ + 1]
                  /\ next_session' = next_session
                  /\ closed' = closed
             ELSE /\ last_returned'.value = next_session
                  /\ sessions'[Len(sessions')].session = next_session
                  /\ next_session \notin Handles(sessions) \cup closed
                  /\ next_session' = next_session + 1
                  /\ stats'.sessions_created = stats.sessions_created + 1
                  /\ stats'.cache_misses = stats.cache_misses + 1
                  /\ stats'.cache_hits = stats.cache_hits]_vars

\* a key was asked for three times in a row of calls and the last call returned
\* the object created by the first, which is now the most recently used of two
C16_Witness ==
    /\ last_returned.op = "get_session"
    /\ Len(sessions) >= 2
    /\ sessions[Len(sessions)].access_count >= 3
    /\ sessions[Len(sessions)].session = last_returned.value
    /\ sessions[Len(sessions)].session < sessions[1].session
    /\ stats.cache_hits >= 2

C18_CloseErrorsSwallowed ==
    [][(logged_errors' # {} /\ closed' # closed) =>
          /\ ~last_returned'.raised
          /\ logged_errors' \subseteq closed' \ closed
          /\ Handles(sessions') \cap closed' = {}
          /\ last_returned'.op = "get_session" =>
                /\ closed' \ closed = {sessions[1].session}
                /\ last_returned'.value = next_session
                /\ sessions'[Len(sessions')].session = next_session
                /\ Len(sessions') = Len(sessions)
                /\ stats'.sessions_created = stats.sessions_created + 1
                /\ stats'.sessions_evicted = stats.sessions_evicted + 1
          /\ last_returned'.op = "remove_session" =>
                /\ Len(sessions') = Len(sessions) - 1
                /\ Cardinality(closed' \ closed) = 1
          /\ last_returned'.op = "cleanup_expired_sessions" =>
                /\ closed' \ closed =
                       { m.session : m \in { e \in Range(sessions) :
                                               now - e.last_accessed > session_ttl } }
                /\ Handles(sessions') = Handles(sessions) \ closed'
                /\ last_returned'.value = Cardinality(closed' \ closed)
                /\ stats'.sessions_expired =
                       stats.sessions_expired + Cardinality(closed' \ closed)
          /\ last_returned'.op = "shutdown" =>
                /\ sessions' = <<>>
                /\ closed' = closed \cup Handles(sessions)]_vars

\* a sweep closed two expired objects: the close of the first raised and the
\* second was closed and removed all the same
C18_Witness ==
    /\ last_returned.op = "cleanup_expired_sessions"
    /\ last_returned.value = 2
    /\ ~last_returned.raised
    /\ stats.cache_hits = 0
    /\ logged_errors = {1}
    /\ closed = {1, 2}
    /\ sessions = <<>>

\* C19: the free slots and the bodies holding a slot always add up to
\* max_concurrent_requests; as each exit, by return or by error, gives back
\* exactly one slot, every slot is free once all tasks have left.
C19_SlotsConserved ==
    /\ semaphore + Cardinality({ t \in Tasks : pc[t] = "body" }) =
           rl_config.max_concurrent_requests
    /\ (\A t \in Tasks : pc[t] \in {"done", "cancelled"}) =>
           semaphore = rl_config.max_concurrent_requests

\* more tasks than slots have all left, the last of them by an error
C19_Witness ==
    /\ \A t \in Tasks : pc[t] = "done"
    /\ last_exit = "raised"
    /\ NumTasks > rl_config.max_concurrent_requests
    /\ semaphore = rl_config.max_concurrent_requests

\* C20: a cancellation during the timed wait debits neither bucket, leaves
\* total_requests, total_tokens_consumed and the free slots as they were and
\* releases the lock; the buckets only ever miss what admitted calls took, so
\* later callers are admitted as if the cancelled call had consumed nothing.
C20_CancelledWaitConsumesNothing ==
    [][/\ \A t \in Tasks :
             (pc[t] = "sleeping" /\ pc'[t] = "cancelled") =>
                 /\ lock = t
                 /\ lock' = 0
                 /\ UNCHANGED <<rpm_bucket, tpm_bucket, rl_total_requests,
                                total_tokens_consumed, semaphore>>
       /\ lock' # 0 => pc'[lock'] = "sleeping"
       /\ rl_total_requests' =
              Cardinality({ t \in Tasks : pc'[t] \in {"want_sem", "body", "done"} })
       /\ rpm_bucket'.tokens >= rpm_bucket'.capacity - rl_total_requests'
       /\ tpm_bucket'.tokens >= tpm_bucket'.capacity - total_tokens_consumed']_vars

\* a task that slept from time 0 was cancelled, and a caller that came after
\* it was admitted without waiting
C20_Witness ==
    \E t \in Tasks :
        /\ pc[t] = "cancelled"
        /\ wake_at[t] = 1
        /\ requests_throttled = 1
        /\ rl_total_requests = 2
        /\ lock = 0

\* C21: leaving the guarded scope, by return or by error, leaves the token
\* levels of both buckets and the four counters of the limiter as they were,
\* and a bucket's token level never rises by more than the time since its last
\* refill times its refill rate: tokens come back through refill only.
C21_TokensNeverGivenBack ==
    [][/\ \A t \in Tasks :
             (pc[t] = "body" /\ pc'[t] = "done") =>
                 /\ rpm_bucket'.tokens = rpm_bucket.tokens
                 /\ tpm_bucket'.tokens = tpm_bucket.tokens
                 /\ UNCHANGED <<rl_total_requests, total_tokens_consumed,
                                total_wait_time, requests_throttled>>
       /\ rpm_bucket'.tokens > rpm_bucket.tokens =>
             /\ rpm_bucket'.last_refill_time = now
             /\ rpm_bucket'.tokens <=
                    rpm_bucket.tokens +
                    (now - rpm_bucket.last_refill_time) * rpm_bucket.refill_rate
       /\ tpm_bucket'.tokens > tpm_bucket.tokens =>
             /\ tpm_bucket'.last_refill_time = now
             /\ tpm_bucket'.tokens <=
                    tpm_bucket.tokens +
                    (now - tpm_bucket.last_refill_time) * tpm_bucket.refill_rate]_vars

\* a body has left by an error while both buckets were short of what it took
C21_Witness ==
    /\ last_exit = "raised"
    /\ rpm_bucket.tokens < rpm_bucket.capacity
    /\ tpm_bucket.tokens < tpm_bucket.capacity
    /\ rpm_bucket.last_refill_time = now
    /\ \E t \in Tasks : pc[t] = "done"

\* C22: consume(n) refills first; when the refilled level is at least n it
\* takes exactly n and returns True, otherwise it returns False and leaves the
\* level at the refilled one: nothing is debited in part.
C22_ConsumeAllOrNothing ==
    [][(bucket_result'.op = "consume" /\ now' = now) =>
          LET n == bucket_result'.value
              refilled == Min(bucket.capacity,
                              bucket.tokens +
                              (now - bucket.last_refill_time) * bucket.refill_rate)
          IN
          /\ bucket_result'.ok <=> refilled >= n
          /\ bucket'.tokens = IF refilled >= n THEN refilled - n ELSE refilled
          /\ bucket'.last_refill_time = now
          /\ bucket'.capacity = bucket.capacity
          /\ bucket'.refill_rate = bucket.refill_rate]_vars

\* a consume failed on a bucket that had been refilled in part and kept what
\* it held
C22_Witness ==
    /\ bucket_result.op = "consume"
    /\ ~bucket_result.ok
    /\ bucket.tokens > 0
    /\ bucket.tokens < bucket.capacity
    /\ bucket_result.value > bucket.tokens
    /\ bucket.last_refill_time = now
    /\ now > 0

\* C23: get_wait_time(n) returns 0 when the refilled level is at least n and
\* (n - tokens) / refill_rate otherwise.  For n <= capacity, as long as nothing
\* has been consumed since the query, consume(n) fails at every time before
\* query time + wait and succeeds from then on.  A consume of n >= 1 from a
\* bucket left at 0 tokens succeeds only n / refill_rate after it was drained.
C23_WaitTimeIsTimeToRefill ==
    [][/\ (bucket_result'.op = "get_wait_time" /\ now' = now) =>
             LET n == wait_query'.n
                 refilled == Min(bucket.capacity,
                                 bucket.tokens +
                                 (now - bucket.last_refill_time) * bucket.refill_rate)
             IN
             /\ wait_query'.wait = bucket_result'.value
             /\ wait_query'.at = now
             /\ IF refilled >= n
                THEN bucket_result'.value = 0
                ELSE /\ bucket_result'.value > 0
                     /\ bucket_result'.value * bucket.refill_rate = n - refilled
       /\ ( /\ bucket_result'.op = "consume"
            /\ now' = now
            /\ wait_query.open
            /\ bucket_result'.value = wait_query.n
            /\ wait_query.n <= bucket.capacity ) =>
             (bucket_result'.ok <=> now >= wait_query.at + wait_query.wait)
       /\ ( /\ bucket_result'.op = "consume"
            /\ now' = now
            /\ bucket_result'.ok
            /\ bucket_result'.value >= 1
            /\ bucket.tokens = 0 ) =>
             (now - bucket.last_refill_time) * bucket.refill_rate >=
                 bucket_result'.value]_vars

\* a bucket was asked how long n tokens take, was told to wait, and the consume
\* made exactly that long after the query succeeded
C23_Witness ==
    /\ bucket_result.op = "consume"
    /\ bucket_result.ok
    /\ bucket_result.value = wait_query.n
    /\ ~wait_query.open
    /\ wait_query.wait > 0
    /\ now = wait_query.at + wait_query.wait

\* the weights of the tasks in S, added up
RECURSIVE SumWeights(_)
SumWeights(S) ==
    IF S = {} THEN 0
    ELSE LET t == CHOOSE u \in S : TRUE IN estimated_tokens[t] + SumWeights(S \ {t})

\* C24: total_requests grows by 1 and total_tokens_consumed by the weight once
\* per admitted acquire and at no other step; requests_throttled grows by 1 and
\* total_wait_time by the computed wait, max of the two buckets' wait times,
\* exactly at the acquires whose computed wait is above 0, and neither changes
\* at an acquire whose wait is 0 or at any other step.
C24_CountersFaithful ==
    [][/\ \A t \in Tasks :
             /\ Admitted(t) =>
                   /\ rl_total_requests' = rl_total_requests + 1
                   /\ total_tokens_consumed' = total_tokens_consumed + estimated_tokens[t]
             /\ (pc[t] = "want_lock" /\ pc'[t] # "want_lock") =>
                   LET wait == Max(GetWaitTime(rpm_bucket, 1),
                                   GetWaitTime(tpm_bucket, estimated_tokens[t]))
                   IN
                   IF wait > 0
                   THEN /\ pc'[t] = "sleeping"
                        /\ requests_throttled' = requests_throttled + 1
                        /\ total_wait_time' = total_wait_time + wait
                   ELSE /\ pc'[t] \in {"want_sem", "body"}
                        /\ requests_throttled' = requests_throttled
                        /\ total_wait_time' = total_wait_time
       /\ (\A t \in Tasks : ~Admitted(t)) =>
             UNCHANGED <<rl_total_requests, total_tokens_consumed>>
       /\ (\A t \in Tasks : ~(pc[t] = "want_lock" /\ pc'[t] # "want_lock")) =>
             UNCHANGED <<requests_throttled, total_wait_time>>
       /\ LET admitted == { t \in Tasks : pc'[t] \in {"want_sem", "body", "done"} } IN
          /\ rl_total_requests' = Cardinality(admitted)
          /\ total_tokens_consumed' = SumWeights(admitted)]_vars

\* acquires with no wait and acquires that waited have been admitted, one of
\* them after a wait of more than one tick
C24_Witness ==
    /\ rl_total_requests = NumTasks
    /\ requests_throttled > 0
    /\ requests_throttled < rl_total_requests
    /\ total_wait_time > requests_throttled
    /\ total_tokens_consumed > NumTasks * (TokensPerMinute \div TicksPerMinute)

\* the callers whose get_rate_limiter call has returned
Served == { c \in Callers : lookups[c].limiter # NoLimiter }

\* C25: the registry holds one RateLimiter per model name: two calls return
\* the same object exactly when they name the same model, whichever call came
\* first, one object has been created per name asked for, and a limiter's
\* tokens_per_minute is 200000 when the name, in lower case, contains "mini"
\* and 30000 otherwise.
C25_OneLimiterPerName ==
    /\ \A c \in Served, d \in Served :
          /\ (lookups[c].model = lookups[d].model) <=>
                 (lookups[c].limiter = lookups[d].limiter)
          /\ (lookups[c].model = lookups[d].model) <=>
                 (lookups[c].limiter.id = lookups[d].limiter.id)
    /\ \A c \in Served :
          /\ lookups[c].model \in DOMAIN rate_limiters
          /\ rate_limiters[lookups[c].model] = lookups[c].limiter
          /\ lookups[c].limiter.config.tokens_per_minute =
                 IF lookups[c].model \in
                        { <<"g", "p", "t", "-", "4", "o", "-", "m", "i", "n", "i">>,
                          <<"G", "P", "T", "-", "4", "o", "-", "M", "i", "n", "i">> }
                 THEN 200000 ELSE 30000
    /\ next_limiter - 1 = Cardinality({ lookups[c].model : c \in Served })
    /\ DOMAIN rate_limiters = { lookups[c].model : c \in Served }

\* two callers that asked for one model hold the same object, and a third that
\* asked for "GPT-4o-Mini" holds another, with the higher token budget
C25_Witness ==
    \E c \in Served, d \in Served, e \in Served :
        /\ c # d
        /\ lookups[c].model = lookups[d].model
        /\ lookups[c].limiter = lookups[d].limiter
        /\ lookups[c].limiter.config.tokens_per_minute = 30000
        /\ lookups[e].model = <<"G", "P", "T", "-", "4", "o", "-", "M", "i", "n", "i">>
        /\ lookups[e].limiter.id # lookups[c].limiter.id
        /\ lookups[e].limiter.config.tokens_per_minute = 200000

\* the positions of a task inside `async with limiter.acquire(...)`
InGate == {"want_lock", "sleeping", "want_sem", "body"}

\* C26 as stated: when the breaker decides on a call, to invoke or to reject,
\* the caller already holds its slot of the rate limiter.
C26_GateBeforeBreaker ==
    [][\A t \in Tasks :
          (call_pc[t] = "idle" /\ call_pc'[t] # "idle") => pc[t] = "body"]_vars

\* C26 as the code has it: the breaker decides first.  A vision call is inside
\* the rate limiter only in an attempt of the operation the breaker invoked;
\* the breaker's decision touches nothing of the rate limiter, and a rejected
\* call never enters it; calls to the upload service never touch it at all.
C26_BreakerBeforeGate ==
    [][/\ \A t \in Tasks :
             /\ pc'[t] \in InGate =>
                   /\ service = "openai"
                   /\ call_pc'[t] = "attempt"
                   /\ call_pc[t] \in {"invoked", "attempt"}
                   /\ attempt_number'[t] \in 1..MaxAttempts
             /\ (call_pc[t] = "idle" /\ call_pc'[t] # "idle") =>
                   /\ pc[t] = "idle"
                   /\ UNCHANGED rlVars
                   /\ call_pc'[t] \in {"invoked", "rejected"}
                   /\ (call_pc'[t] = "rejected") <=>
                          (state = "OPEN" /\ now - opened_at < current_timeout)
             /\ call_pc'[t] = "rejected" =>
                   /\ pc'[t] = "idle"
                   /\ attempt_number'[t] = 0
             /\ Admitted(t) => call_pc[t] = "attempt"
       /\ rl_total_requests' # rl_total_requests =>
             \E t \in Tasks : call_pc[t] = "attempt" /\ Admitted(t)
       /\ service = "microsoft_graph" => UNCHANGED rlVars]_vars

\* the breaker opened on a vision call that failed after a second attempt had
\* gone through the rate limiter, rejected the next call, and later invoked a
\* call that went through the rate limiter and returned
C26_Witness ==
    /\ service = "openai"
    /\ \E t \in Tasks, u \in Tasks, v \in Tasks :
          /\ call_pc[t] = "failed" /\ attempt_number[t] >= 2
          /\ call_pc[u] = "rejected" /\ pc[u] = "idle"
          /\ call_pc[v] = "returned" /\ pc[v] = "done"
    /\ rl_total_requests >= 3
    /\ cb_total_requests = 3


\* the pool holds an entry last accessed at time a or before
HoldsSince(a) ==
    \E i \in 1..Len(sessions) : sessions[i].last_accessed <= a

\* C27: while the pool is running its background task sweeps once per
\* cleanup_interval: a round starts only when the sleep of cleanup_interval
\* has ended, sweeps, and sleeps for cleanup_interval again, and entries leave
\* a pool on which nobody calls cleanup_expired_sessions only by such a round;
\* so the entries that are not accessed after time a leave the pool once they
\* are idle for more than the ttl (the clock of the model has to leave room
\* for the round that finds them expired, which takes at least a ttl and an
\* interval of one tick each).
C27_LoopSweepsEveryInterval ==
    /\ [][\A task \in 1..Len(loop_status) :
             (/\ loop_status[task] = "alive"
              /\ loop_status'[task] = "alive"
              /\ loop_wake_at'[task] # loop_wake_at[task]) =>
                 /\ running
                 /\ now >= loop_wake_at[task]
                 /\ loop_wake_at'[task] = now + cleanup_interval
                 /\ sessions' = Unexpired(sessions)]_vars
    /\ [][stats'.sessions_expired # stats.sessions_expired =>
             /\ running
             /\ loop_status[cleanup_task] = "alive"
             /\ now >= loop_wake_at[cleanup_task]
             /\ loop_wake_at'[cleanup_task] = now + cleanup_interval]_vars
    /\ \A a \in 0..(MaxPoolTime - 2) :
          (/\ running
           /\ HoldsSince(a)
           /\ Max(now, a + session_ttl) + cleanup_interval <= MaxPoolTime)
             ~> (~running \/ ~HoldsSince(a))

\* the background task has just swept the one entry out of the running pool
\* and sleeps again
C27_Witness ==
    /\ running
    /\ loop_status[cleanup_task] = "alive"
    /\ loop_wake_at[cleanup_task] = now + cleanup_interval
    /\ now > session_ttl
    /\ stats.sessions_expired = 1
    /\ stats.sessions_created = 1
    /\ sessions = <<>>
    /\ closed = {1}
    /\ last_returned.op = "get_session"


\* C28: tasks are admitted in the order in which they took the lock: when a
\* task's tokens are consumed, no other task that took the lock before is
\* still waiting for its refill, and the lock is the admitted task's or was
\* free; a task that would need no wait is not admitted while another sleeps.
C28_AdmittedInLockOrder ==
    [][\A u \in Tasks :
          /\ Admitted(u) =>
                /\ lock \in {0, u}
                /\ \A t \in Tasks \ {u} : pc[t] # "sleeping"
                /\ pc[u] = "want_lock" <=> lock = 0
          /\ (pc[u] = "want_lock" /\ \E t \in Tasks : pc[t] = "sleeping") =>
                /\ rl_total_requests' # rl_total_requests =>
                      \E t \in Tasks : pc[t] = "sleeping" /\ Admitted(t)
                /\ pc'[u] = "want_lock"]_vars

\* a task sleeps for its refill with the lock, and a task that came later and
\* whose request the buckets could serve at once waits for the lock
C28_Witness ==
    \E t \in Tasks, u \in Tasks :
        /\ pc[t] = "sleeping" /\ lock = t /\ now < wake_at[t]
        /\ pc[u] = "want_lock"
        /\ estimated_tokens[u] < estimated_tokens[t]
        /\ WaitTime(u) = 0
        /\ rl_total_requests = 0


\* C29: the rate limiter turns no caller away: a task leaves the wait for
\* admission only into its guarded body (or for a slot and then into the
\* body), unless it is cancelled in its sleep, whatever its weight; and in the
\* end every task has been through its body or was cancelled.
C29_NeverRejects ==
    /\ [][\A t \in Tasks :
             /\ (pc[t] \in {"want_lock", "sleeping"} /\ pc'[t] # pc[t]) =>
                    \/ pc'[t] \in {"sleeping", "want_sem", "body"}
                    \/ pc[t] = "sleeping" /\ pc'[t] = "cancelled"
             /\ (pc[t] = "want_sem" /\ pc'[t] # pc[t]) => pc'[t] = "body"
             /\ (pc'[t] = "done" /\ pc[t] # "done") => pc[t] = "body"]_vars
    /\ <>[](\A t \in Tasks : pc[t] \in {"done", "cancelled"})

\* every task was admitted and has left its body, one of them with a weight
\* above the capacity of the weight bucket, after waits and with more tasks
\* than slots
C29_Witness ==
    /\ \A t \in Tasks : pc[t] = "done"
    /\ \E t \in Tasks : estimated_tokens[t] > rl_config.tokens_per_minute
    /\ rl_total_requests = NumTasks
    /\ requests_throttled > 0
    /\ rl_config.max_concurrent_requests < NumTasks
    /\ semaphore = rl_config.max_concurrent_requests


\* what remove_session(session_id) has to leave behind
RemovedOnly(session_id) ==
    /\ IF session_id \in Ids(sessions)
       THEN /\ sessions' = SelectSeq(sessions, LAMBDA m : m.session_id # session_id)
            /\ Len(sessions') = Len(sessions) - 1
            /\ \E m \in Range(sessions) :
                  /\ m.session_id = session_id
                  /\ m.session \notin closed
                  /\ closed' = closed \cup {m.session}
       ELSE /\ sessions' = sessions
            /\ closed' = closed
    /\ stats' = stats
    /\ ~last_returned'.raised
    /\ last_returned'.op = "remove_session"
    /\ UNCHANGED <<max_sessions, session_ttl, next_session, running>>

\* C30: remove_session on a key of the pool closes its object and takes
\* exactly that entry out, the other entries keeping their order and the
\* counters their values; on a key the pool does not hold it changes nothing;
\* the caller gets no error either way, also when the close raises (a close
\* that raised is the one that left its object in logged_errors).
C30_RemoveOnlyThatEntry ==
    [][(last_returned'.op = "remove_session" /\ now' = now) =>
          \A k \in SessionIds :
              RemoveSession(k, logged_errors' # {}) => RemovedOnly(k)]_vars

\* remove_session took the older of two entries out of a pool that never
\* evicted or expired anything
C30_Witness ==
    /\ last_returned.op = "remove_session"
    /\ stats.sessions_created = 2
    /\ stats.sessions_evicted = 0
    /\ stats.sessions_expired = 0
    /\ Len(sessions) = 1
    /\ closed = {1}
    /\ sessions[1].session = 2

\* the tokens a bucket holds at time t when nothing is consumed until then
LevelAt(b, t) ==
    Min(b.capacity, b.tokens + (t - b.last_refill_time) * b.refill_rate)

\* a step that is a read of the rate limiter's statistics: no task moves and
\* no time passes
LimiterStatsRead == LimiterInUse /\ pc' = pc /\ now' = now

\* a step that is a read of the pool's statistics
ManagerStatsRead == last_returned'.op = "get_stats" /\ now' = now

\* C31 as stated: a read of the statistics leaves the whole component as it
\* was, the token levels and refill times of both buckets included.
C31_StatsReadChangesNothing ==
    [][/\ LimiterStatsRead => UNCHANGED rlVars
       /\ ManagerStatsRead =>
             UNCHANGED <<max_sessions, session_ttl, sessions, stats, running,
                         next_session, closed>>]_vars

\* C31 as the code has it: a read of the rate limiter's statistics brings both
\* buckets up to date (tokens = min(capacity, tokens + elapsed * rate),
\* last_refill_time = now) and changes nothing else of the limiter; no level
\* drops, and what each bucket holds at any later time is what it would have
\* held without the read.  A read of the pool's statistics changes nothing of
\* the pool.
C31_StatsReadOnlyRefills ==
    [][/\ LimiterStatsRead =>
             /\ rpm_bucket' = Refill(rpm_bucket)
             /\ tpm_bucket' = Refill(tpm_bucket)
             /\ rpm_bucket'.tokens >= rpm_bucket.tokens
             /\ tpm_bucket'.tokens >= tpm_bucket.tokens
             /\ \A d \in 0..MaxLimiterTime :
                   /\ LevelAt(rpm_bucket', now + d) = LevelAt(rpm_bucket, now + d)
                   /\ LevelAt(tpm_bucket', now + d) = LevelAt(tpm_bucket, now + d)
             /\ UNCHANGED <<rl_config, semaphore, lock, rl_total_requests,
                            total_tokens_consumed, total_wait_time,
                            requests_throttled, pc, estimated_tokens, wake_at,
                            last_exit>>
       /\ ManagerStatsRead =>
             /\ last_returned'.value = Len(sessions)
             /\ ~last_returned'.raised
             /\ UNCHANGED <<max_sessions, session_ttl, cleanup_interval, sessions,
                            stats, running, cleanup_task, loop_status,
                            loop_wake_at, awaiting, next_session, closed,
                            logged_errors>>]_vars

\* the statistics were read one tick after the first request took the one
\* token of the request bucket: the read has refilled the bucket
C31_Witness ==
    /\ rl_total_requests = 1
    /\ requests_throttled = 0
    /\ now = 1
    /\ rpm_bucket.last_refill_time = 1
    /\ rpm_bucket.tokens = rpm_bucket.capacity
    /\ tpm_bucket.last_refill_time = 1
    /\ \A t \in Tasks : pc[t] # "sleeping"

C33_OrderAgreesWithLastAccessed ==
    /\ [](/\ \A i, j \in 1..Len(sessions) :
                i <= j => sessions[i].last_accessed <= sessions[j].last_accessed
          /\ ExpiredSessions = SubSeq(sessions, 1, Len(ExpiredSessions)))
    /\ [][/\ stats'.sessions_evicted # stats.sessions_evicted =>
                \A m \in Range(sessions) :
                    m.session \in closed' \ closed =>
                        \A n \in Range(sessions) : m.last_accessed <= n.last_accessed
          /\ (last_returned'.op = "cleanup_expired_sessions" /\ now' = now) =>
                sessions' = SubSeq(sessions, Len(sessions) - Len(sessions') + 1,
                                   Len(sessions))]_vars

\* a pool that has evicted an entry and holds two entries last accessed at
\* different times, the later of them moved to the end by a hit, the earlier
\* one expired and the only entry the next sweep removes
C33_Witness ==
    /\ stats.sessions_evicted > 0
    /\ Len(sessions) = 2
    /\ sessions[1].last_accessed < sessions[2].last_accessed
    /\ sessions[2].access_count > 1
    /\ ExpiredSessions = <<sessions[1]>>


\* C34: the tokens are consumed before the slot is obtained: a task leaves the
\* rate decision only by consuming one request token and its weight, whether
\* or not a slot is free; a task short of tokens goes to sleep and takes no
\* slot even when slots are free; a slot is given only to a task that consumes
\* in the same step or has consumed before; and a task waiting for a slot has
\* been counted as a request and does not hold the lock.
C34_TokensBeforeSlot ==
    /\ [](\A t \in Tasks :
            pc[t] = "want_sem" =>
                /\ lock # t
                /\ rl_total_requests >=
                       Cardinality({ u \in Tasks : pc[u] \in {"want_sem", "body"} }))
    /\ [][\A t \in Tasks :
            /\ (pc[t] \in {"want_lock", "sleeping"} /\ pc'[t] \in {"want_sem", "body"}) =>
                  /\ rpm_bucket'.tokens = Refill(rpm_bucket).tokens - 1
                  /\ tpm_bucket'.tokens = Refill(tpm_bucket).tokens - estimated_tokens[t]
                  /\ rl_total_requests' = rl_total_requests + 1
                  /\ pc'[t] = "want_sem" <=> semaphore = 0
            /\ (pc[t] = "want_lock" /\ pc'[t] # "want_lock"
                /\ Max(GetWaitTime(rpm_bucket, 1),
                       GetWaitTime(tpm_bucket, estimated_tokens[t])) > 0) =>
                  /\ pc'[t] = "sleeping"
                  /\ semaphore' = semaphore
            /\ (pc'[t] = "body" /\ pc[t] # "body") =>
                  pc[t] \in {"want_lock", "sleeping", "want_sem"}
            /\ (pc[t] = "want_sem" /\ pc'[t] = "body") =>
                  UNCHANGED <<rpm_bucket, tpm_bucket, rl_total_requests>>]_vars


\* C37: requests_throttled never exceeds total_requests, while a task sleeps
\* in the timed wait and after cancelled acquires included, so that the
\* throttle_rate get_stats reports is at most 1.
C37_ThrottledAtMostTotal ==
    requests_throttled <= rl_total_requests


\* C38: at most one background task is alive at any time, and when a
\* shutdown() returns, at once or after it awaited the cancelled task, with no
\* later shutdown() under way, no background task is alive.
C38_OneLoopNoneAfterShutdown ==
    /\ [](Cardinality({ i \in 1..Len(loop_status) : loop_status[i] = "alive" }) <= 1)
    /\ [][(/\ now' = now
           /\ last_returned'.op = "shutdown"
           /\ awaiting' = 0
           /\ awaiting # 0 \/ (running /\ ~running')) =>
              \A i \in 1..Len(loop_status') : loop_status'[i] # "alive"]_vars


\* a step in which get_session fails because the object could not be created
CreateFailed == last_returned'.op = "get_session" /\ last_returned'.raised /\ now' = now

\* C36 as claimed: when the creation of the object fails in get_session on a
\* miss the pool is left as it was: same entries, nothing closed, the key
\* absent, sessions_created and sessions_evicted unchanged.
C36_FailedCreateLeavesPool ==
    [][CreateFailed =>
          /\ sessions' = sessions
          /\ closed' = closed
          /\ stats'.sessions_created = stats.sessions_created
          /\ stats'.sessions_evicted = stats.sessions_evicted]_vars

\* C36: when the creation of the object fails in get_session on a miss the
\* error reaches the caller, no entry is added, sessions_created is unchanged
\* and cache_misses has grown by 1; a pool below max_sessions is left as it
\* was, and in a pool at max_sessions the least recently used entry has been
\* evicted and closed and sessions_evicted has grown by 1.
C36_FailedCreateAfterEviction ==
    [][CreateFailed =>
          /\ last_returned'.value = 0
          /\ stats'.sessions_created = stats.sessions_created
          /\ stats'.cache_misses = stats.cache_misses + 1
          /\ stats'.cache_hits = stats.cache_hits
          /\ stats'.sessions_expired = stats.sessions_expired
          /\ next_session' = next_session
          /\ IF Len(sessions) >= max_sessions /\ sessions # <<>>
             THEN /\ sessions' = Tail(sessions)
                  /\ closed' = closed \cup {Head(sessions).session}
                  /\ stats'.sessions_evicted = stats.sessions_evicted + 1
             ELSE /\ sessions' = sessions
                  /\ closed' = closed
                  /\ stats'.sessions_evicted = stats.sessions_evicted]_vars

\* a failed creation has evicted the oldest entry of a full pool: the miss is
\* counted, nothing was created for it and the pool is one entry short
C36_Witness ==
    /\ last_returned = PoolReturned("get_session", 0, TRUE)
    /\ stats.sessions_evicted > 0
    /\ stats.cache_misses > stats.sessions_created
    /\ Len(sessions) = max_sessions - 1
    /\ Len(sessions) > 0


\* C35: the pool closes a session object a caller works with only in
\* remove_session or in shutdown: no get_session of another task and no sweep
\* closes it.
C35_InUseNeverClosed ==
    [][(\E c \in Callers : using[c] # 0 /\ using[c] \in closed' \ closed) =>
          last_returned'.op \in {"remove_session", "shutdown"}]_vars


\* C39: never more than rate_limit_requests requests proceed within a window
\* of rate_limit_window, and each request that proceeds is recorded in
\* request_timestamps at the time it proceeds.
C39_WindowNeverExceeded ==
    /\ [](\A i \in 1..Len(proceeded) :
            Cardinality({ j \in 1..Len(proceeded) :
                            /\ proceeded[i] <= proceeded[j]
                            /\ proceeded[j] < proceeded[i] + rate_limit_window })
                <= rate_limit_requests)
    /\ [][Len(proceeded') > Len(proceeded) =>
             request_timestamps'[Len(request_timestamps')] = now]_vars

=============================================================================
